---- MODULE Spec2Model ----
(***************************************************************************)
(* A model of the product-schema builder: the property tree editor         *)
(* (SchemaBuilder.tsx, PropertyBuilder.tsx), the validator compiler and    *)
(* the rendered form (DynamicForm.tsx).                                    *)
(*                                                                         *)
(* A JavaScript string is a sequence of one-character strings, so that     *)
(* trim(), template literals and parseFloat() are computed, not assumed.   *)
(* A JavaScript object used as an ordered mapping is a sequence of         *)
(* [name, def] entries in Object.entries order.                            *)
(***************************************************************************)
EXTENDS Integers, Sequences, FiniteSets, TLC

VARIABLES
    category,       \* SchemaBuilder state (SchemaBuilder.tsx:32)
    eventType,      \* SchemaBuilder state (SchemaBuilder.tsx:33)
    title,          \* SchemaBuilder state (SchemaBuilder.tsx:34)
    properties,     \* SchemaBuilder state (SchemaBuilder.tsx:39)
    required,       \* SchemaBuilder state (SchemaBuilder.tsx:42)
    edits,          \* history: the number of editor handlers run so far
    last,           \* history: the last editor handler run, its arguments and the state it ran on
    schema,         \* DynamicForm's schema prop: [properties, required] (DynamicForm.tsx:298)
    multiStep,      \* DynamicForm's multiStep prop (DynamicForm.tsx:301)
    currentStep,    \* DynamicForm state (DynamicForm.tsx:304)
    values,         \* the form's field values, held by useForm (DynamicForm.tsx:306)
    errors,         \* the form's field errors, set by the resolver on submit
    submitted,      \* the data handed to onSubmit, in order (DynamicForm.tsx:313)
    event,          \* history: the last form event and the field it addressed
    schemas,        \* Index state: the registry's list of records (part_000:16)
    viewMode,       \* Index state (part_000:12)
    selectedSchema, \* Index state: no record or one (part_000:13)
    shared,         \* the editor state hooks that hold an object of the selected record
    now,            \* the clock read by Date.now() and new Date()
    reg,            \* history: the last event of the page and the state it ran on
    tags,           \* ArrayInput's value prop, held by its parent (ArrayInput.tsx:14)
    inputValue,     \* ArrayInput state: the pending text (ArrayInput.tsx:19)
    tagEvent        \* history: the last event of the ArrayInput and the state it ran on

editorVars == <<category, eventType, title, properties, required, edits, last>>

formVars == <<schema, multiStep, currentStep, values, errors, submitted, event>>

registryVars == <<schemas, viewMode, selectedSchema, shared, now, reg>>

tagVars == <<tags, inputValue, tagEvent>>

vars == <<category, eventType, title, properties, required, edits, last,
          schema, multiStep, currentStep, values, errors, submitted, event,
          schemas, viewMode, selectedSchema, shared, now, reg,
          tags, inputValue, tagEvent>>

----------------------------------------------------------------------------
(* Bounds of the model *)

MaxNodes == 3       \* property nodes in the edited tree, all levels together
MaxEdits == 7       \* editor handlers run in one editing session
MaxFormEvents == 4  \* events handled by one rendered form
MaxSubmits == 1     \* successful submissions of one rendered form
MaxStepProps == 7   \* top-level properties of a schema rendered in steps
MaxOptions == 2     \* options of one select property
MaxOpenEdits == 2   \* editor handlers run while the registry is modelled
MaxRegistryOps == 4 \* events of the page handled
MaxTicks == 2       \* milliseconds the clock advances

----------------------------------------------------------------------------
(* Strings *)

Digits == {"0", "1", "2", "3", "4", "5", "6", "7", "8", "9"}

RECURSIVE TrimStart(_)
TrimStart(s) == IF s # <<>> /\ Head(s) = " " THEN TrimStart(Tail(s)) ELSE s

RECURSIVE TrimEnd(_)
TrimEnd(s) ==
    IF s # <<>> /\ s[Len(s)] = " " THEN TrimEnd(SubSeq(s, 1, Len(s) - 1)) ELSE s

\* String.prototype.trim, for the space character
Trim(s) == TrimEnd(TrimStart(s))

\* the decimal digits of a natural number, as a string
RECURSIVE NatToStr(_)
NatToStr(n) ==
    IF n < 10 THEN <<ToString(n)>> ELSE NatToStr(n \div 10) \o <<ToString(n % 10)>>

\* `property_${n}`
PropertyName(n) == <<"p", "r", "o", "p", "e", "r", "t", "y", "_">> \o NatToStr(n)

----------------------------------------------------------------------------
(* Ordered mappings: a JavaScript object's own string keys.  Keys that are *)
(* canonical array indices come first, in ascending numeric order; every   *)
(* other key follows in insertion order.                                   *)

IsIndexKey(k) ==
    /\ k # <<>>
    /\ \A i \in 1..Len(k) : k[i] \in Digits
    /\ (k[1] = "0" => Len(k) = 1)

DigitValue(c) == CHOOSE d \in 0..9 : ToString(d) = c

RECURSIVE IndexValue(_)
IndexValue(k) ==
    IF k = <<>> THEN 0
    ELSE 10 * IndexValue(SubSeq(k, 1, Len(k) - 1)) + DigitValue(k[Len(k)])

Keys(m) == {m[i].name : i \in 1..Len(m)}

Has(m, k) == k \in Keys(m)

Get(m, k) == m[CHOOSE i \in 1..Len(m) : m[i].name = k].def

KeySeq(m) == [i \in 1..Len(m) |-> m[i].name]

\* the entries that Object.entries lists before a new key k
Before(m, k) ==
    IF IsIndexKey(k)
    THEN SelectSeq(m, LAMBDA e : IsIndexKey(e.name) /\ IndexValue(e.name) < IndexValue(k))
    ELSE m

After(m, k) ==
    IF IsIndexKey(k)
    THEN SelectSeq(m, LAMBDA e : ~(IsIndexKey(e.name) /\ IndexValue(e.name) < IndexValue(k)))
    ELSE <<>>

\* m[k] = v
Put(m, k, v) ==
    IF Has(m, k)
    THEN [i \in 1..Len(m) |-> IF m[i].name = k THEN [name |-> k, def |-> v] ELSE m[i]]
    ELSE Before(m, k) \o <<[name |-> k, def |-> v]>> \o After(m, k)

\* delete m[k]
Delete(m, k) == SelectSeq(m, LAMBDA e : e.name # k)

\* Array.prototype.includes
Includes(s, x) == \E i \in 1..Len(s) : s[i] = x

\* Array.prototype.filter(req => req !== x)
Without(s, x) == SelectSeq(s, LAMBDA r : r # x)

\* Array.prototype.map(req => req === x ? y : req)
Replace(s, x, y) == [i \in 1..Len(s) |-> IF s[i] = x THEN y ELSE s[i]]

----------------------------------------------------------------------------
(* SchemaProperty (types/schema.ts:1).  An optional attribute that is      *)
(* absent is a flag set to FALSE and an empty value.                       *)

PropertyTypes == {"string", "number", "boolean", "array", "object"}

NoFormat == "undefined"

\* the definition addProperty and addNestedProperty insert
NewProperty ==
    [type |-> "string", description |-> <<>>, format |-> NoFormat,
     hasEnum |-> FALSE, enum |-> <<>>, multiple |-> FALSE,
     hasProps |-> FALSE, properties |-> <<>>,
     hasReq |-> FALSE, required |-> <<>>]

----------------------------------------------------------------------------
(* SchemaBuilder.tsx: the handlers of the top-level sibling group.  Each   *)
(* returns the [properties, required] pair the handler sets.               *)

\* faulty variant: the name is generated from the count itself
addProperty_countName(props, req) ==
    [properties |-> Put(props, PropertyName(Len(props)), NewProperty),
     required |-> req]

addProperty(props, req) ==
    [properties |-> Put(props, PropertyName(Len(props) + 1), NewProperty),
     required |-> req]

updateProperty(props, req, name, property) ==
    [properties |-> Put(props, name, property), required |-> req]

removeProperty(props, req, name) ==
    [properties |-> Delete(props, name), required |-> Without(req, name)]

toggleRequired(props, req, name) ==
    [properties |-> props,
     required |-> IF Includes(req, name) THEN Without(req, name) ELSE Append(req, name)]

\* faulty variant: only the empty string is taken as blank
RenameIgnored_noTrim(oldName, newName) == oldName = newName \/ newName = <<>>

\* the early return of renameProperty and renameNestedProperty
RenameIgnored(oldName, newName) == oldName = newName \/ Trim(newName) = <<>>

\* faulty variant: the old key is not deleted
Rekey_noDelete(props, oldName, newName) == Put(props, newName, Get(props, oldName))

\* newProperties[newName] = newProperties[oldName]; delete newProperties[oldName]
Rekey(props, oldName, newName) == Delete(Put(props, newName, Get(props, oldName)), oldName)

\* faulty variant: the required list keeps the old name
renameProperty_staleRequired(props, req, oldName, newName) ==
    IF oldName = newName \/ Trim(newName) = <<>>
    THEN [properties |-> props, required |-> req]
    ELSE [properties |-> Delete(Put(props, newName, Get(props, oldName)), oldName),
          required |-> req]

renameProperty(props, req, oldName, newName) ==
    IF RenameIgnored(oldName, newName)
    THEN [properties |-> props, required |-> req]
    ELSE [properties |-> Rekey(props, oldName, newName),
          required |-> IF Includes(req, oldName)
                       THEN Replace(req, oldName, newName) ELSE req]

----------------------------------------------------------------------------
(* PropertyBuilder.tsx: the handlers of a nested sibling group.  Each      *)
(* returns the definition the handler passes to onUpdate.                  *)

addNestedProperty(property) ==
    [property EXCEPT
        !.hasProps = TRUE,
        !.properties = Put(property.properties,
                           PropertyName(Len(property.properties) + 1), NewProperty)]

updateNestedProperty(property, propName, nestedProperty) ==
    [property EXCEPT
        !.hasProps = TRUE,
        !.properties = Put(property.properties, propName, nestedProperty)]

\* faulty variant: the name stays in the required list
removeNestedProperty_keepRequired(property, propName) ==
    [property EXCEPT
        !.hasProps = TRUE,
        !.properties = Delete(property.properties, propName)]

removeNestedProperty(property, propName) ==
    [property EXCEPT
        !.hasProps = TRUE,
        !.properties = Delete(property.properties, propName),
        !.hasReq = TRUE,
        !.required = Without(property.required, propName)]

\* faulty variant: the name is appended whether or not it is present
toggleNestedRequired_append(property, propName) ==
    [property EXCEPT
        !.hasReq = TRUE,
        !.required = Append(property.required, propName)]

toggleNestedRequired(property, propName) ==
    [property EXCEPT
        !.hasReq = TRUE,
        !.required = IF Includes(property.required, propName)
                     THEN Without(property.required, propName)
                     ELSE Append(property.required, propName)]

\* called only when the rename is not ignored
renameNestedProperty(property, oldName, newName) ==
    [property EXCEPT
        !.hasProps = TRUE,
        !.properties = Rekey(property.properties, oldName, newName),
        !.hasReq = TRUE,
        !.required = IF Includes(property.required, oldName)
                     THEN Replace(property.required, oldName, newName)
                     ELSE property.required]

\* the Type select of a PropertyBuilder
ChangedType(property, value) ==
    [property EXCEPT
        !.type = value,
        !.hasProps = IF value = "object" THEN property.hasProps ELSE FALSE,
        !.properties = IF value = "object" THEN property.properties ELSE <<>>]

\* the Format select (PropertyBuilder.tsx:170-174)
FormatChanged(property, value) ==
    [property EXCEPT !.format = IF value = "none" THEN NoFormat ELSE value]

\* the Input Type select (PropertyBuilder.tsx:210-220)
InputTypeChanged(property, value) ==
    CASE value = "select" ->
            [property EXCEPT
                !.hasEnum = TRUE,
                !.enum = IF property.hasEnum THEN property.enum ELSE <<<<>>>>,
                !.format = NoFormat]
      [] value = "text" ->
            [property EXCEPT !.hasEnum = FALSE, !.enum = <<>>, !.format = NoFormat]
      [] OTHER ->
            [property EXCEPT !.hasEnum = FALSE, !.enum = <<>>, !.format = value]

\* the Selection Type switch (PropertyBuilder.tsx:240-244)
MultipleChanged(property, checked) == [property EXCEPT !.multiple = checked]

\* the Add Option button (PropertyBuilder.tsx:279-282)
OptionAdded(property) ==
    [property EXCEPT !.hasEnum = TRUE, !.enum = Append(property.enum, <<>>)]

\* a change event of the input of the option at an index (PropertyBuilder.tsx:295-299)
OptionEdited(property, index, text) ==
    [property EXCEPT !.enum = [property.enum EXCEPT ![index] = text]]

\* Array.prototype.filter((_, i) => i !== index), indices from 1
RemoveAt(s, index) == [i \in 1..(Len(s) - 1) |-> IF i < index THEN s[i] ELSE s[i + 1]]

\* faulty variant: the list is stored even when it is empty
OptionRemoved_keepEmpty(property, index) ==
    [property EXCEPT !.hasEnum = TRUE, !.enum = RemoveAt(property.enum, index)]

\* the trash button of the option at an index (PropertyBuilder.tsx:321-324)
OptionRemoved(property, index) ==
    IF Len(RemoveAt(property.enum, index)) > 0
    THEN [property EXCEPT !.hasEnum = TRUE, !.enum = RemoveAt(property.enum, index)]
    ELSE [property EXCEPT !.hasEnum = FALSE, !.enum = <<>>]

----------------------------------------------------------------------------
(* The tree of PropertyBuilder components.  A sibling group is named by    *)
(* the path of property names leading to the object property that owns it; *)
(* <<>> is the top-level group, owned by SchemaBuilder.                    *)

\* the definition at a non-empty path
RECURSIVE DefAt(_, _)
DefAt(props, path) ==
    IF Len(path) = 1 THEN Get(props, path[1])
    ELSE DefAt(Get(props, path[1]).properties, Tail(path))

LevelProps(props, level) == IF level = <<>> THEN props ELSE DefAt(props, level).properties

LevelReq(props, req, level) == IF level = <<>> THEN req ELSE DefAt(props, level).required

\* the paths of the PropertyBuilders rendered with a nested group
\* (PropertyBuilder.tsx:339: only for type object)
RECURSIVE ObjectPaths(_)
ObjectPaths(props) ==
    UNION {
        IF props[i].def.type = "object"
        THEN {<<props[i].name>>} \cup
             {<<props[i].name>> \o p : p \in ObjectPaths(props[i].def.properties)}
        ELSE {} : i \in 1..Len(props)}

Levels(props) == {<<>>} \cup ObjectPaths(props)

RECURSIVE NodeCount(_)
NodeCount(props) ==
    IF props = <<>> THEN 0
    ELSE 1 + NodeCount(Head(props).def.properties) + NodeCount(Tail(props))

\* onUpdate of the PropertyBuilder at a non-empty path below `property`: every
\* ancestor splices the child's definition with updateNestedProperty
RECURSIVE UpdateBelow(_, _, _)
UpdateBelow(property, path, updated) ==
    IF Len(path) = 1 THEN updateNestedProperty(property, path[1], updated)
    ELSE updateNestedProperty(property, path[1],
            UpdateBelow(Get(property.properties, path[1]), Tail(path), updated))

\* onUpdate of the PropertyBuilder at a non-empty path: the top-level ancestor's
\* definition reaches updateProperty
UpdateAt(props, req, path, updated) ==
    IF Len(path) = 1 THEN updateProperty(props, req, path[1], updated)
    ELSE updateProperty(props, req, path[1],
            UpdateBelow(Get(props, path[1]), Tail(path), updated))

----------------------------------------------------------------------------
(* JavaScript values held by the form and read by the compiled ruleset.    *)
(* A number is mantissa / 10^scale, with no trailing zero in the mantissa  *)
(* when scale > 0; an object is a function from its keys to values.        *)

Undefined == [kind |-> "undefined"]
Str(text) == [kind |-> "string", text |-> text]
Num(mantissa, scale) == [kind |-> "number", nan |-> FALSE, mantissa |-> mantissa, scale |-> scale]
NaN == [kind |-> "number", nan |-> TRUE, mantissa |-> 0, scale |-> 0]
Bool(b) == [kind |-> "boolean", value |-> b]
DateValue(valid, day) == [kind |-> "date", valid |-> valid, day |-> day]
Arr(items) == [kind |-> "array", items |-> items]
Obj(fields) == [kind |-> "object", fields |-> fields]

EmptyObj == Obj(<<>>)

\* value[key], undefined for a key the object does not have
Lookup(value, key) ==
    IF key \in DOMAIN value.fields THEN value.fields[key] ELSE Undefined

\* the object with value[key] = v
WithKey(value, key, v) ==
    Obj([k \in DOMAIN value.fields \cup {key} |-> IF k = key THEN v ELSE value.fields[k]])

\* JavaScript truthiness
Truthy(v) ==
    CASE v.kind = "undefined" -> FALSE
      [] v.kind = "string" -> v.text # <<>>
      [] v.kind = "number" -> ~v.nan /\ v.mantissa # 0
      [] v.kind = "boolean" -> v.value
      [] OTHER -> TRUE

\* `${parentPath}.${name}`, and name alone under the root (DynamicForm.tsx:88)
FieldPath(parentPath, name) ==
    IF parentPath = <<>> THEN name ELSE parentPath \o <<".">> \o name

\* path.join('.')
RECURSIVE JoinPath(_)
JoinPath(path) ==
    IF path = <<>> THEN <<>>
    ELSE IF Len(path) = 1 THEN path[1]
    ELSE path[1] \o <<".">> \o JoinPath(Tail(path))

----------------------------------------------------------------------------
(* The validator compiler (DynamicForm.tsx:29) and the rule engine.  A     *)
(* rule stands for the zod type createZodSchema builds.                    *)

Rule(kind, email, element, shape) ==
    [kind |-> kind, email |-> email, element |-> element, shape |-> shape, optional |-> FALSE]

Optional(rule) == [rule EXCEPT !.optional = TRUE]

RECURSIVE createZodSchema(_, _)

\* faulty variant: the date formats are compiled as plain text
StringRule_noDate(property) ==
    IF property.format = "email" THEN Rule("string", TRUE, "", <<>>)
    ELSE IF property.hasEnum /\ property.multiple
         THEN Rule("array", FALSE, "string", <<>>)
         ELSE Rule("string", FALSE, "", <<>>)

\* the case of a string property (DynamicForm.tsx:36-49)
StringRule(property) ==
    IF property.format = "email" THEN Rule("string", TRUE, "", <<>>)
    ELSE IF property.format \in {"date", "date-time"} THEN Rule("date", FALSE, "", <<>>)
    ELSE IF property.hasEnum
         THEN IF property.multiple
              THEN Rule("array", FALSE, "string", <<>>)
              ELSE Rule("string", FALSE, "", <<>>)
         ELSE Rule("string", FALSE, "", <<>>)

\* the switch on property.type (DynamicForm.tsx:35-69)
TypeRule(property) ==
    CASE property.type = "string" -> StringRule(property)
      [] property.type = "number" -> Rule("number", FALSE, "", <<>>)
      [] property.type = "boolean" -> Rule("boolean", FALSE, "", <<>>)
      [] property.type = "object" ->
            IF property.hasProps
            THEN createZodSchema(property.properties, property.required)
            ELSE Rule("object", FALSE, "", <<>>)
      [] property.type = "array" -> Rule("array", FALSE, "any", <<>>)
      [] OTHER -> Rule("any", FALSE, "", <<>>)

\* faulty variant: the required list is not consulted, every field is optional
FieldRule_allOptional(key, property, req) == Optional(TypeRule(property))

\* faulty variant: every field is compiled as required
FieldRule_noOptional(key, property, req) == TypeRule(property)

\* one entry of the shape (DynamicForm.tsx:71-75)
FieldRule(key, property, req) ==
    IF ~Includes(req, key) THEN Optional(TypeRule(property)) ELSE TypeRule(property)

createZodSchema(props, req) ==
    Rule("object", FALSE, "",
         [i \in 1..Len(props) |->
            [name |-> props[i].name, rule |-> FieldRule(props[i].name, props[i].def, req)]])

\* a syntactically valid email address: local@domain.tld, one "@", no space
IsEmail(text) ==
    \E at \in 2..Len(text) :
        /\ text[at] = "@"
        /\ \A i \in 1..Len(text) : (text[i] = "@" => i = at) /\ text[i] # " "
        /\ \E dot \in (at + 2)..(Len(text) - 1) :
              /\ text[dot] = "."
              /\ text[1] # "." /\ text[at - 1] # "."
              /\ \A i \in 1..(Len(text) - 1) : ~(text[i] = "." /\ text[i + 1] = ".")

Issue(path, message) == [path |-> JoinPath(path), message |-> message]

InvalidType(path, v) ==
    {Issue(path, IF v.kind = "undefined" THEN "Required" ELSE "Invalid type")}

\* schema.safeParse(value): the issues, each at its dot-joined path
RECURSIVE Parse(_, _, _)
Parse(rule, v, path) ==
    IF rule.optional /\ v.kind = "undefined" THEN {}
    ELSE CASE rule.kind = "any" -> {}
           [] rule.kind = "string" ->
                IF v.kind # "string" THEN InvalidType(path, v)
                ELSE IF rule.email /\ ~IsEmail(v.text)
                     THEN {Issue(path, "Invalid email format")} ELSE {}
           [] rule.kind = "date" ->
                IF v.kind # "date" THEN InvalidType(path, v)
                ELSE IF ~v.valid THEN {Issue(path, "Invalid date")} ELSE {}
           [] rule.kind = "number" ->
                IF v.kind # "number" \/ v.nan THEN InvalidType(path, v) ELSE {}
           [] rule.kind = "boolean" ->
                IF v.kind # "boolean" THEN InvalidType(path, v) ELSE {}
           [] rule.kind = "array" ->
                IF v.kind # "array" THEN InvalidType(path, v)
                ELSE UNION {
                        IF rule.element = "string" /\ v.items[i].kind # "string"
                        THEN InvalidType(Append(path, NatToStr(i - 1)), v.items[i])
                        ELSE {} : i \in 1..Len(v.items)}
           [] rule.kind = "object" ->
                IF v.kind # "object" THEN InvalidType(path, v)
                ELSE UNION {
                        Parse(rule.shape[i].rule, Lookup(v, rule.shape[i].name),
                              Append(path, rule.shape[i].name)) : i \in 1..Len(rule.shape)}

\* the resolver of the form: zodResolver(createZodSchema(...)) (DynamicForm.tsx:303-308)
Validate(sch, value) == Parse(createZodSchema(sch.properties, sch.required), value, <<>>)

----------------------------------------------------------------------------
(* The tag input (ArrayInput.tsx:13) *)

\* faulty variant: a token already present is appended again
addItem_again(list, item) ==
    IF Trim(item) # <<>> THEN Append(list, Trim(item)) ELSE list

\* the list addItem hands to onChange, or the list as it is when onChange is
\* not called (ArrayInput.tsx:21-27)
addItem(list, item) ==
    LET trimmedItem == Trim(item) IN
    IF trimmedItem # <<>> /\ ~Includes(list, trimmedItem)
    THEN Append(list, trimmedItem)
    ELSE list

\* value.filter((_, i) => i !== index) (ArrayInput.tsx:29-32), index from 0
removeItem(list, index) ==
    LET kept == SelectSeq([i \in 1..Len(list) |-> i], LAMBDA i : i - 1 # index)
    IN  [k \in 1..Len(kept) |-> list[kept[k]]]

NoTagEvent == [type |-> "none", key |-> "", index |-> 0, tags |-> <<>>, inputValue |-> <<>>]

\* no ArrayInput is rendered
TagIdle ==
    /\ tags = <<>>
    /\ inputValue = <<>>
    /\ tagEvent = NoTagEvent

----------------------------------------------------------------------------
(* The registry: the list of records held by the page (part_000:16) *)

\* a ProductSchema (types/schema.ts:23)
Record(id, cat, evt, ttl, props, req, createdAt, updatedAt) ==
    [id |-> id, category |-> cat, eventType |-> evt,
     schema |-> [title |-> ttl, properties |-> props, required |-> req],
     createdAt |-> createdAt, updatedAt |-> updatedAt]

\* a CreateSchemaRequest as handleSave builds it (SchemaBuilder.tsx:102-111)
Request(cat, evt, ttl, props, req) ==
    [category |-> cat, eventType |-> evt,
     schema |-> [title |-> ttl, properties |-> props, required |-> req]]

\* the clock when the page is loaded, later than every date of the initial records
ClockStart == 10

\* the records the page starts with (part_000:16-85), with fewer properties
InitialSchemas ==
    <<Record(<<"1">>, <<"e">>, <<"c">>, <<"x">>,
             <<[name |-> <<"a">>,
                def |-> [NewProperty EXCEPT
                            !.type = "object", !.hasProps = TRUE,
                            !.properties = <<[name |-> <<"c">>, def |-> NewProperty]>>,
                            !.hasReq = TRUE, !.required = <<<<"c">>>>]]>>,
             <<<<"a">>>>, 5, 5),
      Record(<<"2">>, <<"x">>, <<"x">>, <<"x">>,
             <<[name |-> <<"b">>, def |-> [NewProperty EXCEPT !.type = "number"]]>>,
             <<>>, 3, 4)>>

\* setSchemas([newSchema, ...schemas]) with the three readings of the clock
\* (part_000:87-95)
handleCreateSchema(list, data, tId, tCreated, tUpdated) ==
    <<[id |-> NatToStr(tId), category |-> data.category, eventType |-> data.eventType,
       schema |-> data.schema, createdAt |-> tCreated, updatedAt |-> tUpdated]>> \o list

\* faulty variant: every record takes the payload
handleEditSchema_all(list, id, data, t) ==
    [i \in 1..Len(list) |->
        [list[i] EXCEPT !.category = data.category, !.eventType = data.eventType,
                        !.schema = data.schema, !.updatedAt = t]]

\* schemas.map(...) (part_000:111-116)
handleEditSchema(list, id, data, t) ==
    [i \in 1..Len(list) |->
        IF list[i].id = id
        THEN [list[i] EXCEPT !.category = data.category, !.eventType = data.eventType,
                             !.schema = data.schema, !.updatedAt = t]
        ELSE list[i]]

\* schemas.filter(schema => schema.id !== id) (part_000:132-134)
handleDeleteSchema(list, id) == SelectSeq(list, LAMBDA r : r.id # id)

NoCall ==
    [op |-> "none", n |-> 0, id |-> <<>>, toasts |-> <<>>, calls |-> <<>>,
     schemas |-> <<>>]

\* the page shows one view and its registry plays no part
NoRegistry(mode) ==
    /\ schemas = <<>>
    /\ viewMode = mode
    /\ selectedSchema = <<>>
    /\ shared = {}
    /\ now = ClockStart
    /\ reg = NoCall

----------------------------------------------------------------------------
(* The editor *)

Blank(s) == Trim(s) = <<>>

\* texts typed into the category, event type and title inputs
MetaTexts == {<<>>, <<" ">>, <<"x">>}

\* texts typed into a property's name input
RenameInputs == {<<>>, <<" ">>, <<"a">>, <<"1">>}

\* types chosen in a property's Type select
TypeInputs == {"string", "number", "object"}

NoOp ==
    [op |-> "none", level |-> <<>>, name |-> <<>>, newName |-> <<>>, type |-> "",
     index |-> 0, properties |-> <<>>, required |-> <<>>,
     twice |-> FALSE, properties2 |-> <<>>, required2 |-> <<>>]

\* the record of a handler run: what ran, on which sibling group and property, the
\* state it ran on and, when it repeats the run before it, the state that one ran on
Did(op, level, name, newName, type) ==
    LET twice == last.op = op /\ last.level = level /\ last.name = name
    IN  [op |-> op, level |-> level, name |-> name, newName |-> newName, type |-> type,
         index |-> 0, properties |-> properties, required |-> required,
         twice |-> twice,
         properties2 |-> IF twice THEN last.properties ELSE <<>>,
         required2 |-> IF twice THEN last.required ELSE <<>>]

NoEvent ==
    [type |-> "none", path |-> <<>>, text |-> <<>>, count |-> 0, log |-> <<>>,
     shown |-> {}, plan |-> <<>>]

\* no form is rendered
FormIdle ==
    /\ schema = [properties |-> <<>>, required |-> <<>>]
    /\ multiStep = FALSE
    /\ currentStep = 0
    /\ values = EmptyObj
    /\ errors = {}
    /\ submitted = <<>>
    /\ event = NoEvent

Init ==
    /\ category \in MetaTexts
    /\ eventType \in MetaTexts
    /\ title \in MetaTexts
    /\ properties = <<>>
    /\ required = <<>>
    /\ edits = 0
    /\ last = NoOp
    /\ FormIdle
    /\ NoRegistry("create")
    /\ TagIdle

\* faulty variant: the properties object is written to
InPlaceWrites_properties(next) == {"properties"}

\* the state objects a handler writes to instead of replacing them by a copy:
\* none, every handler builds its result with a spread, filter or map
\* (SchemaBuilder.tsx:48, 58, 65, 68, 73-75, 82, 88; PropertyBuilder.tsx:48, 62, 73, 85, 97)
InPlaceWrites(next) == {}

\* the list with what was written to the objects of the selected record
WrittenThrough(list, writes, next) ==
    [i \in 1..Len(list) |->
        IF selectedSchema # <<>> /\ list[i].id = selectedSchema[1].id
        THEN [list[i] EXCEPT
                !.schema.properties =
                    IF "properties" \in writes THEN next.properties ELSE @,
                !.schema.required =
                    IF "required" \in writes THEN next.required ELSE @]
        ELSE list[i]]

\* setProperties / setRequired with the result of a handler
Commit(next) ==
    /\ properties' = next.properties
    /\ required' = next.required
    /\ shared' = {h \in shared :
                    \/ h \in InPlaceWrites(next)
                    \/ h = "properties" /\ next.properties = properties
                    \/ h = "required" /\ next.required = required}
    /\ schemas' = WrittenThrough(schemas, shared \cap InPlaceWrites(next), next)
    /\ UNCHANGED <<category, eventType, title>>

Ran(op, level, name, newName, type) ==
    /\ viewMode \in {"create", "edit"}
    /\ edits < MaxEdits
    /\ edits' = edits + 1
    /\ last' = Did(op, level, name, newName, type)
    /\ UNCHANGED formVars
    /\ UNCHANGED tagVars
    /\ UNCHANGED <<viewMode, selectedSchema, now, reg>>

\* the Add Property button (disabled while a metadata field is blank,
\* SchemaBuilder.tsx:221) and the Add Nested Property button
AddProperty ==
    \E level \in Levels(properties) :
        /\ NodeCount(properties) < MaxNodes
        /\ IF level = <<>>
           THEN /\ ~(Blank(category) \/ Blank(eventType) \/ Blank(title))
                /\ Commit(addProperty(properties, required))
           ELSE Commit(UpdateAt(properties, required, level,
                                addNestedProperty(DefAt(properties, level))))
        /\ Ran("add", level, <<>>, <<>>, "")

\* the trash button of a PropertyBuilder
RemoveProperty ==
    \E level \in Levels(properties) :
        \E name \in Keys(LevelProps(properties, level)) :
            /\ IF level = <<>>
               THEN Commit(removeProperty(properties, required, name))
               ELSE Commit(UpdateAt(properties, required, level,
                                    removeNestedProperty(DefAt(properties, level), name)))
            /\ Ran("remove", level, name, <<>>, "")

\* the Required switch of a PropertyBuilder
ToggleRequired ==
    \E level \in Levels(properties) :
        \E name \in Keys(LevelProps(properties, level)) :
            /\ IF level = <<>>
               THEN Commit(toggleRequired(properties, required, name))
               ELSE Commit(UpdateAt(properties, required, level,
                                    toggleNestedRequired(DefAt(properties, level), name)))
            /\ Ran("toggle", level, name, <<>>, "")

\* a change event of the name input of a PropertyBuilder
RenameProperty ==
    \E level \in Levels(properties) :
        \E name \in Keys(LevelProps(properties, level)) :
            \E newName \in RenameInputs \cup Keys(LevelProps(properties, level)) :
                /\ IF level = <<>>
                   THEN Commit(renameProperty(properties, required, name, newName))
                   ELSE IF RenameIgnored(name, newName)
                        THEN UNCHANGED <<category, eventType, title, properties, required,
                                         shared, schemas>>
                        ELSE Commit(UpdateAt(properties, required, level,
                                renameNestedProperty(DefAt(properties, level), name, newName)))
                /\ Ran("rename", level, name, newName, "")

\* the Type select of a PropertyBuilder
ChangeType ==
    \E level \in Levels(properties) :
        \E name \in Keys(LevelProps(properties, level)) :
            \E value \in TypeInputs :
                /\ Commit(UpdateAt(properties, required, level \o <<name>>,
                        ChangedType(DefAt(properties, level \o <<name>>), value)))
                /\ Ran("type", level, name, <<>>, value)

Next ==
    \/ AddProperty
    \/ RemoveProperty
    \/ ToggleRequired
    \/ RenameProperty
    \/ ChangeType

Spec == Init /\ [][Next]_vars

----------------------------------------------------------------------------
(* The input configuration of a PropertyBuilder *)

\* values offered by the Format select (PropertyBuilder.tsx:22-32), a selection
FormatInputs == {"none", "date", "email", "markdown"}

\* values offered by the Input Type select (PropertyBuilder.tsx:225-231), a selection
InputTypeInputs == {"select", "text", "textarea", "date"}

\* texts typed into the input of an option
OptionTexts == {<<>>, <<"r">>}

\* a handler of the PropertyBuilder of the property `name` in the group `level`
\* passes `updated` to onUpdate
Updated(op, level, name, text, value, index, updated) ==
    /\ Commit(UpdateAt(properties, required, Append(level, name), updated))
    /\ edits < MaxEdits
    /\ edits' = edits + 1
    /\ last' = [Did(op, level, name, text, value) EXCEPT !.index = index]
    /\ UNCHANGED formVars
    /\ UNCHANGED tagVars
    /\ UNCHANGED <<viewMode, selectedSchema, now, reg>>

\* the Format select, rendered for a string or a number property
ChangeFormat ==
    \E level \in Levels(properties) :
        \E name \in Keys(LevelProps(properties, level)) :
            LET property == DefAt(properties, Append(level, name)) IN
            /\ property.type \in {"string", "number"}
            /\ \E value \in FormatInputs :
                  Updated("format", level, name, <<>>, value, 0, FormatChanged(property, value))

\* the Input Type select, rendered for a string property
ChangeInputType ==
    \E level \in Levels(properties) :
        \E name \in Keys(LevelProps(properties, level)) :
            LET property == DefAt(properties, Append(level, name)) IN
            /\ property.type = "string"
            /\ \E value \in InputTypeInputs :
                  Updated("inputType", level, name, <<>>, value, 0,
                          InputTypeChanged(property, value))

\* the Selection Type switch, rendered for a string property with an enum
ToggleMultiple ==
    \E level \in Levels(properties) :
        \E name \in Keys(LevelProps(properties, level)) :
            LET property == DefAt(properties, Append(level, name)) IN
            /\ property.type = "string" /\ property.hasEnum
            /\ Updated("multiple", level, name, <<>>, "", 0,
                       MultipleChanged(property, ~property.multiple))

\* the Add Option button, rendered for a string property with an enum
AddOption ==
    \E level \in Levels(properties) :
        \E name \in Keys(LevelProps(properties, level)) :
            LET property == DefAt(properties, Append(level, name)) IN
            /\ property.type = "string" /\ property.hasEnum
            /\ Len(property.enum) < MaxOptions
            /\ Updated("addOption", level, name, <<>>, "", 0, OptionAdded(property))

\* a change event of the input of an option
EditOption ==
    \E level \in Levels(properties) :
        \E name \in Keys(LevelProps(properties, level)) :
            LET property == DefAt(properties, Append(level, name)) IN
            /\ property.type = "string" /\ property.hasEnum
            /\ \E index \in 1..Len(property.enum) : \E text \in OptionTexts :
                  Updated("editOption", level, name, text, "", index,
                          OptionEdited(property, index, text))

\* the trash button of an option
RemoveOption ==
    \E level \in Levels(properties) :
        \E name \in Keys(LevelProps(properties, level)) :
            LET property == DefAt(properties, Append(level, name)) IN
            /\ property.type = "string" /\ property.hasEnum
            /\ \E index \in 1..Len(property.enum) :
                  Updated("removeOption", level, name, <<>>, "", index,
                          OptionRemoved(property, index))

\* the editor holds one new property, at the top level or in an object property
InitOptions ==
    /\ category = <<"x">>
    /\ eventType = <<"x">>
    /\ title = <<"x">>
    /\ properties \in
          {addProperty(<<>>, <<>>).properties,
           updateProperty(addProperty(<<>>, <<>>).properties, <<>>, PropertyName(1),
                          addNestedProperty(ChangedType(NewProperty, "object"))).properties}
    /\ required = <<>>
    /\ edits = 0
    /\ last = NoOp
    /\ FormIdle
    /\ NoRegistry("create")
    /\ TagIdle

NextOptions ==
    \/ ChangeFormat
    \/ ChangeInputType
    \/ ToggleMultiple
    \/ AddOption
    \/ EditOption
    \/ RemoveOption
    \/ ChangeType

SpecOptions == InitOptions /\ [][NextOptions]_vars

----------------------------------------------------------------------------
(* The page (part_000:10): the list, the editor opened on a new or on an   *)
(* existing record, and the viewer.                                        *)

\* the record of an event of the page: what ran, the id it addressed, the toasts
\* it posted, the payloads handed to onSave, and the list it ran on
Called(op, id, toasts, calls) ==
    /\ reg.n < MaxRegistryOps
    /\ reg' = [op |-> op, n |-> reg.n + 1, id |-> id, toasts |-> toasts, calls |-> calls,
               schemas |-> schemas]
    /\ UNCHANGED formVars
    /\ UNCHANGED tagVars

\* SchemaBuilder's useState initial values (SchemaBuilder.tsx:32-42): the fields
\* of initialSchema, held by reference, or the defaults
Mounted(initial) ==
    /\ category' = IF initial = <<>> THEN <<>> ELSE initial[1].category
    /\ eventType' = IF initial = <<>> THEN <<>> ELSE initial[1].eventType
    /\ title' = IF initial = <<>> THEN <<>> ELSE initial[1].schema.title
    /\ properties' = IF initial = <<>> THEN <<>> ELSE initial[1].schema.properties
    /\ required' = IF initial = <<>> THEN <<>> ELSE initial[1].schema.required
    /\ shared' = IF initial = <<>> THEN {} ELSE {"properties", "required"}
    /\ last' = NoOp
    /\ UNCHANGED edits

\* no SchemaBuilder is mounted
Unmounted ==
    /\ category' = <<>>
    /\ eventType' = <<>>
    /\ title' = <<>>
    /\ properties' = <<>>
    /\ required' = <<>>
    /\ shared' = {}
    /\ last' = NoOp
    /\ UNCHANGED edits

\* onCreate of the list (part_000:185)
CreateClick ==
    /\ viewMode = "list"
    /\ viewMode' = "create"
    /\ Mounted(<<>>)
    /\ Called("create", <<>>, <<>>, <<>>)
    /\ UNCHANGED <<schemas, selectedSchema, now>>

\* handleEditClick (part_000:144-147)
EditClick ==
    \E i \in 1..Len(schemas) :
        /\ viewMode = "list"
        /\ selectedSchema' = <<schemas[i]>>
        /\ viewMode' = "edit"
        /\ Mounted(<<schemas[i]>>)
        /\ Called("edit", schemas[i].id, <<>>, <<>>)
        /\ UNCHANGED <<schemas, now>>

\* handleViewSchema (part_000:139-142)
ViewClick ==
    \E i \in 1..Len(schemas) :
        /\ viewMode = "list"
        /\ selectedSchema' = <<schemas[i]>>
        /\ viewMode' = "view"
        /\ Unmounted
        /\ Called("view", schemas[i].id, <<>>, <<>>)
        /\ UNCHANGED <<schemas, now>>

\* onEdit of the viewer (part_000:173)
ViewEdit ==
    /\ viewMode = "view"
    /\ viewMode' = "edit"
    /\ Mounted(selectedSchema)
    /\ Called("edit", selectedSchema[1].id, <<>>, <<>>)
    /\ UNCHANGED <<schemas, selectedSchema, now>>

\* onBack of the viewer (part_000:174)
ViewBack ==
    /\ viewMode = "view"
    /\ viewMode' = "list"
    /\ Unmounted
    /\ Called("back", <<>>, <<>>, <<>>)
    /\ UNCHANGED <<schemas, selectedSchema, now>>

\* onCancel of the editor (part_000:155, 164)
Cancel ==
    /\ viewMode \in {"create", "edit"}
    /\ viewMode' = "list"
    /\ Unmounted
    /\ Called("cancel", <<>>, <<>>, <<>>)
    /\ UNCHANGED <<schemas, selectedSchema, now>>

\* handleDelete of the list (SchemaList.tsx:36-42) calling handleDeleteSchema
DeleteClick ==
    \E i \in 1..Len(schemas) :
        /\ viewMode = "list"
        /\ schemas' = handleDeleteSchema(schemas, schemas[i].id)
        /\ Called("delete", schemas[i].id, <<"Schema Deleted">>, <<>>)
        /\ UNCHANGED <<viewMode, selectedSchema, now>>
        /\ UNCHANGED <<category, eventType, title, properties, required, shared, last, edits>>

\* a change event of one of the metadata inputs
MetaSet(text) ==
    /\ viewMode \in {"create", "edit"}
    /\ text \in MetaTexts
    /\ UNCHANGED <<properties, required, shared, last, edits>>
    /\ UNCHANGED <<schemas, viewMode, selectedSchema, now, reg>>
    /\ UNCHANGED formVars
    /\ UNCHANGED tagVars

\* setCategory (SchemaBuilder.tsx:147)
SetCategory == \E text \in MetaTexts :
    MetaSet(text) /\ category' = text /\ UNCHANGED <<eventType, title>>

\* setEventType (SchemaBuilder.tsx:156)
SetEventType == \E text \in MetaTexts :
    MetaSet(text) /\ eventType' = text /\ UNCHANGED <<category, title>>

\* setTitle (SchemaBuilder.tsx:169)
SetTitle == \E text \in MetaTexts :
    MetaSet(text) /\ title' = text /\ UNCHANGED <<category, eventType>>

\* faulty variant: only the category is looked at
SaveBlocked_categoryOnly == Blank(category)

\* the guard of handleSave (SchemaBuilder.tsx:93)
SaveBlocked == Blank(category) \/ Blank(eventType) \/ Blank(title)

\* handleSave (SchemaBuilder.tsx:92-112) with the onSave of the page
\* (part_000:154, 163).  The clock has advanced by d0 since the event before
\* and may advance between the readings of handleCreateSchema.
Save ==
    /\ viewMode \in {"create", "edit"}
    /\ IF SaveBlocked
       THEN /\ Called("save", <<>>, <<"Validation Error">>, <<>>)
            /\ UNCHANGED <<category, eventType, title, properties, required, shared,
                           last, edits>>
            /\ UNCHANGED <<schemas, viewMode, selectedSchema, now>>
       ELSE LET data == Request(category, eventType, title, properties, required) IN
            /\ viewMode' = "list"
            /\ Unmounted
            /\ UNCHANGED selectedSchema
            /\ \E d0, d1, d2 \in 0..1 :
                  LET tId == now + d0
                      tCreated == tId + d1
                      tUpdated == tCreated + d2
                  IN  IF viewMode = "create"
                      THEN /\ tUpdated <= ClockStart + MaxTicks
                           /\ schemas' = handleCreateSchema(schemas, data,
                                                            tId, tCreated, tUpdated)
                           /\ now' = tUpdated
                           /\ Called("save", NatToStr(tId), <<"Schema Created">>, <<data>>)
                      ELSE /\ d1 = 0 /\ d2 = 0
                           /\ tId <= ClockStart + MaxTicks
                           /\ schemas' = handleEditSchema(schemas, selectedSchema[1].id,
                                                          data, tId)
                           /\ now' = tId
                           /\ Called("save", selectedSchema[1].id,
                                     <<"Schema Updated">>, <<data>>)

InitRegistry ==
    /\ category = <<>>
    /\ eventType = <<>>
    /\ title = <<>>
    /\ properties = <<>>
    /\ required = <<>>
    /\ edits = 0
    /\ last = NoOp
    /\ FormIdle
    /\ TagIdle
    /\ schemas = InitialSchemas
    /\ viewMode = "list"
    /\ selectedSchema = <<>>
    /\ shared = {}
    /\ now = ClockStart
    /\ reg = NoCall

\* an editor handler, while the registry is modelled
EditorStep ==
    /\ edits < MaxOpenEdits
    /\ \/ AddProperty
       \/ RemoveProperty
       \/ ToggleRequired
       \/ RenameProperty
       \/ ChangeType

NextRegistry ==
    \/ CreateClick
    \/ EditClick
    \/ ViewClick
    \/ ViewEdit
    \/ ViewBack
    \/ Cancel
    \/ DeleteClick
    \/ SetCategory
    \/ SetEventType
    \/ SetTitle
    \/ Save

SpecRegistry == InitRegistry /\ [][NextRegistry]_vars

\* the editor opened on records of the registry
NextEditing ==
    \/ EditClick
    \/ ViewClick
    \/ ViewEdit
    \/ ViewBack
    \/ Cancel
    \/ Save
    \/ EditorStep

SpecEditing == InitRegistry /\ [][NextEditing]_vars

----------------------------------------------------------------------------
(* The rendered form (DynamicForm.tsx:297) *)

\* the editor is not open
EditorIdle ==
    /\ category = <<>>
    /\ eventType = <<>>
    /\ title = <<>>
    /\ properties = <<>>
    /\ required = <<>>
    /\ edits = 0
    /\ last = NoOp

\* the parsed data of a successful safeParse: unknown keys stripped, absent keys omitted
RECURSIVE Output(_, _)
Output(rule, v) ==
    IF rule.kind = "object" /\ v.kind = "object"
    THEN LET present == {rule.shape[i].name : i \in
                            {j \in 1..Len(rule.shape) :
                                Lookup(v, rule.shape[j].name).kind # "undefined"}}
             ruleOf(k) == rule.shape[CHOOSE i \in 1..Len(rule.shape) : rule.shape[i].name = k].rule
         IN  Obj([k \in present |-> Output(ruleOf(k), Lookup(v, k))])
    ELSE v

\* properties shown by one step (DynamicForm.tsx:318-320)
StepSize == 3

\* Object.entries(schema.properties) (DynamicForm.tsx:316)
propertyEntries == schema.properties

\* faulty variant: the quotient is rounded down
CeilDiv_floor(n, d) == n \div d

\* Math.ceil(n / d) for a natural n and a positive d
CeilDiv(n, d) == (n + d - 1) \div d

\* Array.prototype.slice(start, end) with indices from 0, clamped to the array
Slice(s, start, end) ==
    LET lo == IF start > Len(s) THEN Len(s) ELSE start
        hi == IF end > Len(s) THEN Len(s) ELSE end
    IN  IF hi <= lo THEN <<>> ELSE SubSeq(s, lo + 1, hi)

\* DynamicForm.tsx:317
stepsCount == IF multiStep THEN CeilDiv(Len(propertyEntries), StepSize) ELSE 1

\* the entries rendered when the form is at step k (DynamicForm.tsx:318-320)
StepProperties(k) ==
    IF multiStep
    THEN Slice(propertyEntries, k * StepSize, (k + 1) * StepSize)
    ELSE propertyEntries

currentStepProperties == StepProperties(currentStep)

\* the form's submit event: form.handleSubmit(handleSubmit) (DynamicForm.tsx:311-314, 354);
\* the submit button is rendered on the last step (DynamicForm.tsx:378-387)
Submit ==
    /\ ~(multiStep /\ currentStep < stepsCount - 1)
    /\ Len(submitted) < MaxSubmits
    /\ event.count < MaxFormEvents
    /\ errors' = Validate(schema, values)
    /\ submitted' = IF errors' = {}
                    THEN Append(submitted,
                                Output(createZodSchema(schema.properties, schema.required), values))
                    ELSE submitted
    /\ event' = [event EXCEPT !.type = "submit", !.path = <<>>, !.text = <<>>,
                               !.count = event.count + 1]
    /\ UNCHANGED <<schema, multiStep, currentStep, values>>
    /\ UNCHANGED editorVars
    /\ UNCHANGED registryVars
    /\ UNCHANGED tagVars

\* definitions the families of schemas are built from
StringDef(format, hasEnum, multiple) ==
    [NewProperty EXCEPT
        !.format = format, !.hasEnum = hasEnum,
        !.enum = IF hasEnum THEN <<<<"r">>, <<"g">>>> ELSE <<>>,
        !.multiple = multiple]

TypedDef(type) == [NewProperty EXCEPT !.type = type]

ObjectDef(props, req) ==
    [NewProperty EXCEPT
        !.type = "object", !.hasProps = TRUE, !.properties = props,
        !.hasReq = TRUE, !.required = req]

----------------------------------------------------------------------------
(* The widgets of FormFieldRenderer (DynamicForm.tsx:82) *)

\* faulty variant: a description of 50 characters already counts as long
Widget_longFrom50(property) ==
    CASE property.type = "boolean" -> "switch"
      [] property.type = "string" ->
            IF property.format \in {"date", "date-time"} THEN "date"
            ELSE IF property.hasEnum /\ Len(property.enum) > 0
                 THEN IF property.multiple THEN "checkboxes" ELSE "select"
            ELSE IF property.format = "markdown" THEN "markdown"
            ELSE IF property.format = "textarea" \/ Len(property.description) >= 50
                 THEN "textarea"
            ELSE IF property.format = "email" THEN "email" ELSE "text"
      [] property.type = "number" -> "number"
      [] property.type = "object" -> IF property.hasProps THEN "section" ELSE "none"
      [] OTHER -> "text"

\* the widget renderInput selects for a definition (DynamicForm.tsx:90-253)
Widget(property) ==
    CASE property.type = "boolean" -> "switch"
      [] property.type = "string" ->
            IF property.format \in {"date", "date-time"} THEN "date"
            ELSE IF property.hasEnum /\ Len(property.enum) > 0
                 THEN IF property.multiple THEN "checkboxes" ELSE "select"
            ELSE IF property.format = "markdown" THEN "markdown"
            ELSE IF property.format = "textarea" \/ Len(property.description) > 50
                 THEN "textarea"
            ELSE IF property.format = "email" THEN "email" ELSE "text"
      [] property.type = "number" -> "number"
      [] property.type = "object" -> IF property.hasProps THEN "section" ELSE "none"
      [] OTHER -> "text"

\* the fields a list of entries renders, each with its path of names and its
\* definition; an object with properties renders its nested fields
RECURSIVE RenderedFields(_, _)
RenderedFields(props, parentPath) ==
    UNION {
        IF props[i].def.type = "object" /\ props[i].def.hasProps
        THEN RenderedFields(props[i].def.properties, Append(parentPath, props[i].name))
        ELSE {[path |-> Append(parentPath, props[i].name), def |-> props[i].def]} :
        i \in 1..Len(props)}

\* the elements of a sequence of sequences, in order
RECURSIVE Concat(_)
Concat(seqs) == IF seqs = <<>> THEN <<>> ELSE Head(seqs) \o Concat(Tail(seqs))

\* what a FormFieldRenderer puts on the page, in order (DynamicForm.tsx:82-295).
\* For an object with properties it returns one FormField per nested entry,
\* bound to the path of that entry (256-278), and each of them renders
\* renderInput of the object itself: the sub-section of 228-244 with a
\* FormFieldRenderer for every nested entry.  Every other definition gets one
\* FormField with its widget, bound to its own path (280-294).  Each FormField
\* ends with a FormMessage for the path it is bound to.
RECURSIVE FormFieldRenderer(_, _, _)
FormFieldRenderer(name, property, parentPath) ==
    LET fieldPath == Append(parentPath, name)
        nested == property.properties
        section(i) ==
            <<[path |-> fieldPath, bound |-> Append(fieldPath, nested[i].name),
               def |-> property, widget |-> "section"]>>
            \o Concat([j \in 1..Len(nested) |->
                          FormFieldRenderer(nested[j].name, nested[j].def, fieldPath)])
    IN  IF property.type = "object" /\ property.hasProps
        THEN Concat([i \in 1..Len(nested) |-> section(i)])
        ELSE <<[path |-> fieldPath, bound |-> fieldPath,
                def |-> property, widget |-> Widget(property)]>>

\* currentStepProperties.map(...) (DynamicForm.tsx:355-362)
RenderPlan(props) ==
    Concat([i \in 1..Len(props) |-> FormFieldRenderer(props[i].name, props[i].def, <<>>)])

\* the messages on the page: each FormMessage of the rendered entries shows
\* the message of the error at the path its FormField is bound to
\* (DynamicForm.tsx:271, 290)
MessagesShown(props, errs) ==
    LET plan == RenderPlan(props)
        shows == {k \in 1..Len(plan) :
                    \E issue \in errs : issue.path = JoinPath(plan[k].bound)}
    IN  [k \in shows |-> JoinPath(plan[k].bound)]

\* the value the form holds at a path of names
RECURSIVE GetPath(_, _)
GetPath(value, path) ==
    IF path = <<>> THEN value
    ELSE IF value.kind # "object" THEN Undefined
    ELSE GetPath(Lookup(value, path[1]), Tail(path))

\* field.onChange(v) for the field at a path: the objects above it are created
RECURSIVE SetPath(_, _, _)
SetPath(value, path, v) ==
    IF Len(path) = 1 THEN WithKey(value, path[1], v)
    ELSE WithKey(value, path[1],
            SetPath(IF Lookup(value, path[1]).kind = "object"
                    THEN Lookup(value, path[1]) ELSE EmptyObj, Tail(path), v))

\* the value renderInput receives: field.value || '' (DynamicForm.tsx:288)
FieldValue(v) == IF Truthy(v) THEN v ELSE Str(<<>>)

\* field.value || [] (DynamicForm.tsx:144)
CurrentValues(v) == IF Truthy(FieldValue(v)) THEN FieldValue(v) ELSE Arr(<<>>)

\* faulty variant: a checked option is put in front
CheckedChange_prepend(v, option, checked) ==
    IF checked
    THEN Arr(<<Str(option)>> \o CurrentValues(v).items)
    ELSE Arr(SelectSeq(CurrentValues(v).items, LAMBDA x : x # Str(option)))

\* onCheckedChange of the checkbox of an option (DynamicForm.tsx:143-150)
CheckedChange(v, option, checked) ==
    IF checked
    THEN Arr(Append(CurrentValues(v).items, Str(option)))
    ELSE Arr(SelectSeq(CurrentValues(v).items, LAMBDA x : x # Str(option)))

\* the checked prop of the checkbox of an option (DynamicForm.tsx:142)
IsChecked(v, option) == Includes(CurrentValues(v).items, Str(option))

\* onSelect of the calendar in single mode: the day picked, or undefined when the
\* selected day is picked again (DynamicForm.tsx:121-124)
DaySelected(v, day) ==
    IF FieldValue(v).kind = "date" /\ FieldValue(v).day = day
    THEN Undefined ELSE DateValue(TRUE, day)

\* the longest prefix of decimal digits
RECURSIVE DigitPrefix(_)
DigitPrefix(text) ==
    IF text # <<>> /\ Head(text) \in Digits
    THEN <<Head(text)>> \o DigitPrefix(Tail(text)) ELSE <<>>

\* a digit string without its trailing zeros
RECURSIVE StripZeros(_)
StripZeros(digits) ==
    IF digits # <<>> /\ digits[Len(digits)] = "0"
    THEN StripZeros(SubSeq(digits, 1, Len(digits) - 1)) ELSE digits

\* parseFloat for decimal literals: leading spaces, a sign, digits, a fraction;
\* what follows the literal is ignored, no digit at all gives NaN
parseFloat(text) ==
    LET t == TrimStart(text)
        signed == t # <<>> /\ Head(t) \in {"-", "+"}
        negative == t # <<>> /\ Head(t) = "-"
        u == IF signed THEN Tail(t) ELSE t
        whole == DigitPrefix(u)
        rest == SubSeq(u, Len(whole) + 1, Len(u))
        fraction == IF rest # <<>> /\ Head(rest) = "." THEN DigitPrefix(Tail(rest)) ELSE <<>>
        kept == StripZeros(fraction)
        magnitude == IndexValue(whole \o kept)
    IN  IF whole = <<>> /\ fraction = <<>> THEN NaN
        ELSE Num(IF negative THEN 0 - magnitude ELSE magnitude, Len(kept))

\* faulty variant: the parsed value is stored as it is
NumberChange_noCoercion(text) == parseFloat(text)

\* onChange of the number input: parseFloat(e.target.value) || 0 (DynamicForm.tsx:223)
NumberChange(text) == IF Truthy(parseFloat(text)) THEN parseFloat(text) ELSE Num(0, 0)

\* days offered by the calendar
Days == {1, 2}

\* texts typed into a number input
NumberTexts ==
    {<<>>, <<"0">>, <<"1", "2">>, <<"1", ".", "5">>, <<"-", "3">>, <<"1", "2", "a">>,
     <<"n", "o", "t", "-", "a", "-", "n", "u", "m", "b", "e", "r">>}

\* the record of a form event on the field at a path
Handled(type, path, text, log) ==
    /\ event.count < MaxFormEvents
    /\ event' = [type |-> type, path |-> path, text |-> text,
                 count |-> event.count + 1, log |-> log, shown |-> event.shown,
                 plan |-> event.plan]
    /\ UNCHANGED <<schema, multiStep, currentStep, errors, submitted>>
    /\ UNCHANGED editorVars
    /\ UNCHANGED registryVars
    /\ UNCHANGED tagVars

\* a click on the checkbox of an option of a multi-select field
CheckOption ==
    \E f \in RenderedFields(currentStepProperties, <<>>) :
        /\ Widget(f.def) = "checkboxes"
        /\ \E i \in 1..Len(f.def.enum) :
              LET option == f.def.enum[i]
                  checked == ~IsChecked(GetPath(values, f.path), option)
              IN  /\ values' = SetPath(values, f.path,
                                       CheckedChange(GetPath(values, f.path), option, checked))
                  /\ Handled("check", f.path, option,
                             Append(event.log, [path |-> f.path, option |-> option,
                                                checked |-> checked]))

\* a day picked in the calendar of a date field
PickDate ==
    \E f \in RenderedFields(currentStepProperties, <<>>) :
        /\ Widget(f.def) = "date"
        /\ \E day \in Days :
              /\ values' = SetPath(values, f.path, DaySelected(GetPath(values, f.path), day))
              /\ Handled("date", f.path, <<>>, event.log)

\* a change event of a number input
ChangeNumber ==
    \E f \in RenderedFields(currentStepProperties, <<>>) :
        /\ Widget(f.def) = "number"
        /\ \E text \in NumberTexts :
              /\ values' = SetPath(values, f.path, NumberChange(text))
              /\ Handled("number", f.path, text, event.log)

\* the schemas rendered: a multi-select, a date and a number field, at the top
\* level or in a nested object, all of them required or none
FormFields(dateFormat) ==
    <<[name |-> <<"m">>, def |-> StringDef(NoFormat, TRUE, TRUE)],
      [name |-> <<"d">>, def |-> StringDef(dateFormat, FALSE, FALSE)],
      [name |-> <<"n">>, def |-> TypedDef("number")]>>

FormSchemas ==
    {[properties |-> FormFields(f), required |-> req] :
        f \in {"date", "date-time"}, req \in {<<>>, <<<<"m">>, <<"d">>, <<"n">>>>}}
    \cup
    {[properties |-> <<[name |-> <<"o">>, def |-> ObjectDef(FormFields(f), req)]>>,
      required |-> <<<<"o">>>>] :
        f \in {"date", "date-time"}, req \in {<<>>, <<<<"m">>, <<"d">>, <<"n">>>>}}

InitForm ==
    /\ EditorIdle
    /\ NoRegistry("view")
    /\ TagIdle
    /\ schema \in FormSchemas
    /\ multiStep = FALSE
    /\ currentStep = 0
    /\ values = EmptyObj
    /\ errors = {}
    /\ submitted = <<>>
    /\ event = NoEvent

NextForm ==
    \/ CheckOption
    \/ PickDate
    \/ ChangeNumber
    \/ Submit

SpecForm == InitForm /\ [][NextForm]_vars

----------------------------------------------------------------------------
(* The widget of a string field *)

\* the description length above which a string field is multi-line
\* (DynamicForm.tsx:199)
DescriptionLimit == 50

\* a description of n characters
DescriptionOf(n) == [i \in 1..n |-> "d"]

\* the formats a string definition is rendered with, a selection
WidgetFormats == {NoFormat, "date", "date-time", "markdown", "textarea", "email"}

\* the lists of options of a string definition: none, an empty list, options
WidgetEnums == {<<FALSE, <<>>>>, <<TRUE, <<>>>>, <<TRUE, <<<<"r">>, <<"g">>>>>>}

\* string definitions: every format with every list of options, single or
\* multiple, and a description that is absent, at the limit or one above it
WidgetDefs ==
    {[NewProperty EXCEPT
        !.format = format, !.hasEnum = options[1], !.enum = options[2],
        !.multiple = multiple, !.description = DescriptionOf(length)] :
        format \in WidgetFormats, options \in WidgetEnums, multiple \in BOOLEAN,
        length \in {0, DescriptionLimit, DescriptionLimit + 1}}

\* a form of one string field
WidgetSchemas ==
    {[properties |-> <<[name |-> <<"s">>, def |-> def]>>, required |-> <<>>] :
        def \in WidgetDefs}

\* a render of the form: each FormFieldRenderer shows the widget renderInput
\* returns for its definition (DynamicForm.tsx:82-295)
Render ==
    /\ event.type # "render"
    /\ event.count < MaxFormEvents
    /\ event' = [event EXCEPT
                    !.type = "render", !.count = @ + 1,
                    !.shown = {[path |-> f.path, def |-> f.def, widget |-> Widget(f.def)] :
                                  f \in RenderedFields(currentStepProperties, <<>>)},
                    !.plan = RenderPlan(currentStepProperties)]
    /\ UNCHANGED <<schema, multiStep, currentStep, values, errors, submitted>>
    /\ UNCHANGED editorVars
    /\ UNCHANGED registryVars
    /\ UNCHANGED tagVars

InitWidgets ==
    /\ EditorIdle
    /\ NoRegistry("view")
    /\ TagIdle
    /\ schema \in WidgetSchemas
    /\ multiStep = FALSE
    /\ currentStep = 0
    /\ values = EmptyObj
    /\ errors = {}
    /\ submitted = <<>>
    /\ event = NoEvent

NextWidgets ==
    \/ Render
    \/ CheckOption
    \/ PickDate

SpecWidgets == InitWidgets /\ [][NextWidgets]_vars

----------------------------------------------------------------------------
(* The sub-sections of object fields *)

\* leaves of the rendered objects: a number, a multi-select and a boolean
NestedLeaves == {TypedDef("number"), StringDef(NoFormat, TRUE, TRUE), TypedDef("boolean")}

\* the property lists of a rendered object: none, one or two leaves
NestedLists ==
    {<<>>}
    \cup {<<[name |-> <<"a">>, def |-> x]>> : x \in NestedLeaves}
    \cup {<<[name |-> <<"a">>, def |-> x], [name |-> <<"b">>, def |-> y]>> :
            x \in NestedLeaves, y \in NestedLeaves}

\* forms of one object field: the object of a list, an object holding it, and
\* an object holding it beside a number
NestedSchemas ==
    {[properties |-> <<[name |-> <<"o">>, def |-> ObjectDef(list, <<>>)]>>,
      required |-> <<>>] : list \in NestedLists}
    \cup
    {[properties |->
        <<[name |-> <<"o">>,
           def |-> ObjectDef(<<[name |-> <<"q">>, def |-> ObjectDef(list, <<>>)]>>, <<>>)]>>,
      required |-> <<>>] : list \in NestedLists}
    \cup
    {[properties |->
        <<[name |-> <<"o">>,
           def |-> ObjectDef(<<[name |-> <<"q">>, def |-> ObjectDef(list, <<>>)],
                               [name |-> <<"c">>, def |-> TypedDef("number")]>>, <<>>)]>>,
      required |-> <<>>] : list \in NestedLists}

InitNested ==
    /\ EditorIdle
    /\ NoRegistry("view")
    /\ TagIdle
    /\ schema \in NestedSchemas
    /\ multiStep = FALSE
    /\ currentStep = 0
    /\ values = EmptyObj
    /\ errors = {}
    /\ submitted = <<>>
    /\ event = NoEvent

NextNested ==
    \/ Render
    \/ ChangeNumber
    \/ CheckOption

SpecNested == InitNested /\ [][NextNested]_vars

----------------------------------------------------------------------------
(* Array fields *)

\* texts typed into a text input
TextInputs == {<<>>, <<"t">>}

\* a change event of an input that spreads `field`: the textarea, the text and
\* email inputs of a string (DynamicForm.tsx:199-216) and the input of the
\* default case (246-253); the form stores e.target.value
ChangeText ==
    \E f \in RenderedFields(currentStepProperties, <<>>) :
        /\ Widget(f.def) \in {"text", "email", "textarea"}
        /\ \E text \in TextInputs :
              /\ values' = SetPath(values, f.path, Str(text))
              /\ Handled("text", f.path, text, event.log)

\* an array field beside a number field
ArrayFields ==
    <<[name |-> <<"t">>, def |-> TypedDef("array")],
      [name |-> <<"n">>, def |-> TypedDef("number")]>>

\* forms with an array field, at the top level or in a nested object
ArraySchemas ==
    {[properties |-> ArrayFields, required |-> req] :
        req \in {<<>>, <<<<"t">>>>}}
    \cup
    {[properties |-> <<[name |-> <<"o">>, def |-> ObjectDef(ArrayFields, req)]>>,
      required |-> <<<<"o">>>>] :
        req \in {<<>>, <<<<"t">>>>}}

InitArray ==
    /\ EditorIdle
    /\ NoRegistry("view")
    /\ TagIdle
    /\ schema \in ArraySchemas
    /\ multiStep = FALSE
    /\ currentStep = 0
    /\ values = EmptyObj
    /\ errors = {}
    /\ submitted = <<>>
    /\ event = NoEvent

NextArray ==
    \/ Render
    \/ ChangeText
    \/ ChangeNumber
    \/ Submit

SpecArray == InitArray /\ [][NextArray]_vars

----------------------------------------------------------------------------
(* The events of the tag input *)

\* texts the input can hold after a change event (typed or pasted)
TagTexts == {<<>>, <<" ">>, <<"a">>, <<" ", "b">>, <<"a", " ">>}

\* keys pressed in the input
TagKeys == {"Enter", " ", "Backspace", "x"}

\* the lists the parent passes at first: without duplicates and blank tokens
InitialTags == {<<>>, <<<<"a">>>>, <<<<"c">>, <<"a">>>>}

\* the record of an event of the tag input
TagHandled(type, key, index) ==
    /\ tagEvent' = [type |-> type, key |-> key, index |-> index, tags |-> tags,
                    inputValue |-> inputValue]
    /\ UNCHANGED editorVars
    /\ UNCHANGED formVars
    /\ UNCHANGED registryVars

\* onChange of the input (ArrayInput.tsx:71)
TagChange ==
    \E text \in TagTexts :
        /\ text # inputValue
        /\ inputValue' = text
        /\ UNCHANGED tags
        /\ TagHandled("change", "", 0)

\* handleKeyDown (ArrayInput.tsx:34-41)
handleKeyDown ==
    \E key \in TagKeys :
        /\ IF key = "Enter" \/ key = " "
           THEN /\ tags' = addItem(tags, inputValue)
                /\ inputValue' = <<>>
           ELSE IF key = "Backspace" /\ inputValue = <<>> /\ Len(tags) > 0
                THEN /\ tags' = removeItem(tags, Len(tags) - 1)
                     /\ UNCHANGED inputValue
                ELSE UNCHANGED <<tags, inputValue>>
        /\ TagHandled("key", key, 0)

\* handleInputBlur (ArrayInput.tsx:43-47)
handleInputBlur ==
    /\ IF Trim(inputValue) # <<>>
       THEN /\ tags' = addItem(tags, inputValue)
            /\ inputValue' = <<>>
       ELSE UNCHANGED <<tags, inputValue>>
    /\ TagHandled("blur", "", 0)

\* the button of a badge (ArrayInput.tsx:61)
RemoveClick ==
    \E index \in 0..(Len(tags) - 1) :
        /\ tags' = removeItem(tags, index)
        /\ UNCHANGED inputValue
        /\ TagHandled("remove", "", index)

InitTags ==
    /\ EditorIdle
    /\ FormIdle
    /\ NoRegistry("view")
    /\ tags \in InitialTags
    /\ inputValue = <<>>
    /\ tagEvent = NoTagEvent

NextTags ==
    \/ TagChange
    \/ handleKeyDown
    \/ handleInputBlur
    \/ RemoveClick

SpecTags == InitTags /\ [][NextTags]_vars

----------------------------------------------------------------------------
(* The steps of a multi-step form (DynamicForm.tsx:315) *)

\* the Next button (DynamicForm.tsx:323-327, rendered by 378-382)
handleNext ==
    /\ multiStep
    /\ currentStep < stepsCount - 1
    /\ currentStep' = currentStep + 1
    /\ event' = [event EXCEPT !.type = "next"]
    /\ UNCHANGED <<schema, multiStep, values, errors, submitted>>
    /\ UNCHANGED editorVars
    /\ UNCHANGED registryVars
    /\ UNCHANGED tagVars

\* the Previous button (DynamicForm.tsx:329-333, rendered by 366-370)
handlePrevious ==
    /\ multiStep
    /\ currentStep > 0
    /\ currentStep' = currentStep - 1
    /\ event' = [event EXCEPT !.type = "previous"]
    /\ UNCHANGED <<schema, multiStep, values, errors, submitted>>
    /\ UNCHANGED editorVars
    /\ UNCHANGED registryVars
    /\ UNCHANGED tagVars

\* the Next button is rendered (DynamicForm.tsx:378-382)
NextShown == multiStep /\ currentStep < stepsCount - 1

\* the submit button is rendered (DynamicForm.tsx:378, 383-387)
SubmitShown == ~NextShown

\* schemas of up to MaxStepProps top-level properties, their order a rotation
\* of the generated names
StepSchemas ==
    {[properties |->
        [i \in 1..n |->
            [name |-> PropertyName(((i + shift - 1) % MaxStepProps) + 1),
             def |-> NewProperty]],
      required |-> <<>>] :
        n \in 0..MaxStepProps, shift \in 0..(MaxStepProps - 1)}

InitSteps ==
    /\ EditorIdle
    /\ NoRegistry("view")
    /\ TagIdle
    /\ schema \in StepSchemas
    /\ multiStep \in BOOLEAN
    /\ currentStep = 0
    /\ values = EmptyObj
    /\ errors = {}
    /\ submitted = <<>>
    /\ event = NoEvent

NextSteps ==
    \/ handleNext
    \/ handlePrevious

SpecSteps == InitSteps /\ [][NextSteps]_vars

----------------------------------------------------------------------------
(* Submitting a form of one or two steps *)

\* four text fields, and a required object with a required text field
SubmitSchemas ==
    {[properties |-> [i \in 1..4 |-> [name |-> PropertyName(i), def |-> NewProperty]],
      required |-> req] :
        req \in {<<>>, <<PropertyName(1)>>, <<PropertyName(4)>>}}
    \cup
    {[properties |->
        <<[name |-> <<"o">>,
           def |-> ObjectDef(<<[name |-> <<"a">>, def |-> NewProperty]>>, <<<<"a">>>>)]>>,
      required |-> <<<<"o">>>>]}

InitSubmit ==
    /\ EditorIdle
    /\ NoRegistry("view")
    /\ TagIdle
    /\ schema \in SubmitSchemas
    /\ multiStep \in BOOLEAN
    /\ currentStep = 0
    /\ values = EmptyObj
    /\ errors = {}
    /\ submitted = <<>>
    /\ event = NoEvent

NextSubmit ==
    \/ ChangeText
    \/ handleNext
    \/ handlePrevious
    \/ Submit

SpecSubmit == InitSubmit /\ [][NextSubmit]_vars

----------------------------------------------------------------------------
(* The compiled ruleset applied to a submission: the schema and the        *)
(* submitted value are drawn from bounded families.                        *)

LeafDefs ==
    {StringDef(f, e, m) : f \in {NoFormat, "email", "date", "date-time"},
                          e \in BOOLEAN, m \in BOOLEAN}
    \cup {TypedDef(t) : t \in {"number", "boolean", "array", "object"}}

NestedDefs ==
    {ObjectDef(<<[name |-> <<"c">>, def |-> d]>>, req) :
        d \in LeafDefs, req \in {<<>>, <<<<"c">>>>}}

SiblingDefs == {TypedDef("string"), TypedDef("number")}

RuleSchemas ==
    {[properties |-> <<[name |-> <<"a">>, def |-> d]>>, required |-> req] :
        d \in LeafDefs \cup NestedDefs, req \in {<<>>, <<<<"a">>>>}}
    \cup
    {[properties |-> <<[name |-> <<"a">>, def |-> d], [name |-> <<"b">>, def |-> e]>>,
      required |-> req] :
        d \in LeafDefs \cup NestedDefs, e \in SiblingDefs,
        req \in {<<>>, <<<<"a">>>>, <<<<"b">>>>, <<<<"a">>, <<"b">>>>}}

Samples ==
    {Undefined, Str(<<"x">>), Str(<<>>), Str(<<"a", "@", "b", ".", "c">>),
     Num(1, 0), NaN, Bool(TRUE), DateValue(TRUE, 1), DateValue(FALSE, 0),
     Arr(<<>>), Arr(<<Str(<<"x">>)>>), Arr(<<Num(1, 0)>>), EmptyObj}

SiblingSamples == {Undefined, Str(<<"x">>), Num(1, 0), NaN}

\* the values tried for a field with definition def
SamplesFor(def) ==
    IF def.type = "object" /\ def.hasProps
    THEN {Undefined, Str(<<"x">>)} \cup
         {Obj([k \in {<<"c">>} |-> v]) : v \in Samples}
    ELSE Samples

RuleValues(sch) ==
    IF Len(sch.properties) = 1
    THEN {Obj([k \in {<<"a">>} |-> v]) : v \in SamplesFor(sch.properties[1].def)}
    ELSE {Obj([k \in {<<"a">>, <<"b">>} |-> IF k = <<"a">> THEN v ELSE w]) :
            v \in SamplesFor(sch.properties[1].def), w \in SiblingSamples}

InitRules ==
    /\ EditorIdle
    /\ NoRegistry("view")
    /\ TagIdle
    /\ schema \in RuleSchemas
    /\ values \in RuleValues(schema)
    /\ multiStep = FALSE
    /\ currentStep = 0
    /\ errors = {}
    /\ submitted = <<>>
    /\ event = NoEvent

NextRules == Submit

SpecRules == InitRules /\ [][NextRules]_vars

----------------------------------------------------------------------------
(* Properties of the editor.  Each reads the sibling group the last        *)
(* handler ran on, before (from the history) and after (from the state).   *)

PreProps == LevelProps(last.properties, last.level)
PreReq == LevelReq(last.properties, last.required, last.level)
PostProps == LevelProps(properties, last.level)
PostReq == LevelReq(properties, required, last.level)

Members(s) == {s[i] : i \in 1..Len(s)}

EffectiveRename == last.op = "rename" /\ ~Blank(last.newName) /\ last.newName # last.name

\* C1: after Rename(a, b) of an existing property a that is in required, to a
\* non-blank name b other than a, at any nesting level: b is in required, a is
\* not, a is no longer a key, and b maps to the definition a had.
C1_RenameRequired ==
    (EffectiveRename /\ Includes(PreReq, last.name)) =>
        /\ Includes(PostReq, last.newName)
        /\ ~Includes(PostReq, last.name)
        /\ ~Has(PostProps, last.name)
        /\ Has(PostProps, last.newName)
        /\ Get(PostProps, last.newName) = Get(PreProps, last.name)

\* C1 happens in a nested group: a required nested property was renamed
C1_Witness ==
    /\ EffectiveRename
    /\ last.level # <<>>
    /\ Includes(PreReq, last.name)
    /\ Includes(PostReq, last.newName)

\* C2: Rename(a, n) with n empty, whitespace-only or equal to a leaves the
\* mapping and the required list of every level unchanged.
C2_RenameNoOp ==
    (last.op = "rename" /\ (Blank(last.newName) \/ last.newName = last.name)) =>
        /\ properties = last.properties
        /\ required = last.required

\* C2 happens: a whitespace-only name was typed for a required nested property
C2_Witness ==
    /\ last.op = "rename"
    /\ last.newName = <<" ">>
    /\ last.level # <<>>
    /\ Includes(PreReq, last.name)
    /\ properties = last.properties

\* C3: after Remove(a), at any nesting level, the mapping has no key a and the
\* required list no occurrence of a; every other sibling keeps its definition,
\* its relative order and its required status.
C3_Remove ==
    last.op = "remove" =>
        /\ ~Has(PostProps, last.name)
        /\ ~Includes(PostReq, last.name)
        /\ KeySeq(PostProps) = Without(KeySeq(PreProps), last.name)
        /\ \A k \in Keys(PreProps) \ {last.name} :
              /\ Get(PostProps, k) = Get(PreProps, k)
              /\ Includes(PostReq, k) <=> Includes(PreReq, k)

\* C3 happens: a required property with a required sibling was removed
C3_Witness ==
    /\ last.op = "remove"
    /\ Includes(PreReq, last.name)
    /\ \E k \in Keys(PostProps) : Includes(PostReq, k)

\* C4: ToggleRequired(a) applied twice yields a required list with the same
\* member names as before the two toggles and leaves the mapping unchanged.
C4_ToggleTwice ==
    (last.op = "toggle" /\ last.twice) =>
        /\ Members(PostReq) = Members(LevelReq(last.properties2, last.required2, last.level))
        /\ PostProps = LevelProps(last.properties2, last.level)

\* C4 happens: a nested property that was not required was toggled twice
C4_Witness ==
    /\ last.op = "toggle"
    /\ last.twice
    /\ last.level # <<>>
    /\ ~Includes(LevelReq(last.properties2, last.required2, last.level), last.name)
    /\ Includes(PreReq, last.name)

----------------------------------------------------------------------------
(* Properties of the compiled ruleset.  What a conforming value is, is     *)
(* stated from the mapping table of the rules, not from the compiler.      *)

Submitted == event.type = "submit"

RECURSIVE GroupConforms(_, _, _)

\* the value has the kind the table prescribes for the definition
FieldConforms(def, v) ==
    CASE def.type = "string" ->
            IF def.format = "email" THEN v.kind = "string" /\ IsEmail(v.text)
            ELSE IF def.format \in {"date", "date-time"} THEN v.kind = "date" /\ v.valid
            ELSE IF def.hasEnum /\ def.multiple
                 THEN v.kind = "array" /\ \A i \in 1..Len(v.items) : v.items[i].kind = "string"
                 ELSE v.kind = "string"
      [] def.type = "number" -> v.kind = "number" /\ ~v.nan
      [] def.type = "boolean" -> v.kind = "boolean"
      [] def.type = "array" -> v.kind = "array"
      [] def.type = "object" ->
            /\ v.kind = "object"
            /\ def.hasProps => GroupConforms(def.properties, def.required, v)
      [] OTHER -> TRUE

\* an absent field is not required, a present one conforms
EntryConforms(entry, req, obj) ==
    IF Lookup(obj, entry.name).kind = "undefined"
    THEN ~Includes(req, entry.name)
    ELSE FieldConforms(entry.def, Lookup(obj, entry.name))

GroupConforms(props, req, obj) ==
    \A i \in 1..Len(props) : EntryConforms(props[i], req, obj)

\* the field at path is required in its group and absent, the objects above it
\* are present, and every other field conforms
RECURSIVE MissingOnly(_, _, _, _)
MissingOnly(props, req, obj, path) ==
    /\ Has(props, path[1])
    /\ \A i \in 1..Len(props) : props[i].name # path[1] => EntryConforms(props[i], req, obj)
    /\ IF Len(path) = 1
       THEN Includes(req, path[1]) /\ Lookup(obj, path[1]).kind = "undefined"
       ELSE LET def == Get(props, path[1])
                v == Lookup(obj, path[1])
            IN  /\ def.type = "object" /\ def.hasProps
                /\ v.kind = "object"
                /\ MissingOnly(def.properties, def.required, v, Tail(path))

\* the paths of the fields of a schema, nested fields included
RECURSIVE PathsOf(_)
PathsOf(props) ==
    UNION {{<<props[i].name>>} \cup
           {<<props[i].name>> \o p : p \in PathsOf(props[i].def.properties)} :
           i \in 1..Len(props)}

\* C5: a submission in which one required field is absent and every other field
\* is valid yields exactly one error, at the dot-joined path of that field; the
\* same holds for a field required in a nested object whose value is present.
C5_MissingRequired ==
    Submitted =>
        \A path \in PathsOf(schema.properties) :
            MissingOnly(schema.properties, schema.required, values, path) =>
                /\ Cardinality(errors) = 1
                /\ \A e \in errors : e.path = JoinPath(path)

\* C5 happens in a nested object: its required field c is absent, a and b are valid
C5_Witness ==
    /\ Submitted
    /\ Len(schema.properties) = 2
    /\ MissingOnly(schema.properties, schema.required, values, <<<<"a">>, <<"c">>>>)
    /\ Lookup(values, <<"b">>).kind # "undefined"
    /\ errors = {[path |-> <<"a", ".", "c">>, message |-> "Required"]}

\* C6: a value in which every locally required field is present and every present
\* field has the kind the table prescribes validates with no error; a field not in
\* the local required list may be absent.
C6_ConformingPasses ==
    (Submitted /\ GroupConforms(schema.properties, schema.required, values)) =>
        /\ errors = {}
        /\ submitted # <<>>

\* C6 happens: a nested object with a multi-select value passes, its optional sibling absent
C6_Witness ==
    /\ Submitted
    /\ GroupConforms(schema.properties, schema.required, values)
    /\ Len(schema.properties) = 2
    /\ Lookup(values, <<"b">>).kind = "undefined"
    /\ Lookup(values, <<"a">>).kind = "object"
    /\ Lookup(Lookup(values, <<"a">>), <<"c">>).kind = "array"
    /\ Get(schema.properties, <<"a">>).hasProps
    /\ Get(Get(schema.properties, <<"a">>).properties, <<"c">>).type = "string"
    /\ errors = {}

----------------------------------------------------------------------------
(* Properties of the steps *)

\* the steps laid end to end, from step k on
RECURSIVE StepsFrom(_)
StepsFrom(k) == IF k >= stepsCount THEN <<>> ELSE StepProperties(k) \o StepsFrom(k + 1)

\* the entries at positions 3k..3k+2 (counted from 0) of the original order
PositionsOf(k) ==
    LET n == Len(propertyEntries)
        last3 == IF 3 * k + 3 > n THEN n ELSE 3 * k + 3
    IN  [j \in 1..(last3 - 3 * k) |-> propertyEntries[3 * k + j]]

\* C7: in multi-step mode a schema of n top-level properties is shown in
\* ceil(n/3) steps, step k shows the properties at positions 3k..3k+2 of the
\* original order, every step but the last shows 3 and the last 1 to 3, the
\* steps laid end to end are the original order, and 7 properties are shown
\* as 3, 3, 1.
C7_StepPartition ==
    multiStep =>
        LET n == Len(propertyEntries) IN
        /\ 3 * stepsCount >= n
        /\ 3 * (stepsCount - 1) < n \/ (n = 0 /\ stepsCount = 0)
        /\ \A k \in 0..(stepsCount - 1) :
              /\ StepProperties(k) = PositionsOf(k)
              /\ k < stepsCount - 1 => Len(StepProperties(k)) = 3
              /\ k = stepsCount - 1 => Len(StepProperties(k)) \in 1..3
        /\ currentStepProperties = PositionsOf(currentStep)
        /\ StepsFrom(0) = propertyEntries
        /\ n = 7 =>
              [k \in 1..stepsCount |-> Len(StepProperties(k - 1))] = <<3, 3, 1>>

C7_Witness ==
    /\ multiStep
    /\ Len(propertyEntries) = 7
    /\ currentStep = 2
    /\ currentStepProperties = <<propertyEntries[7]>>

----------------------------------------------------------------------------
(* Properties of the widgets *)

\* the options checked last and not unchecked since, in the order of those checks
RECURSIVE CheckedOrder(_, _)
CheckedOrder(log, i) ==
    IF i > Len(log) THEN <<>>
    ELSE (IF log[i].checked /\ \A j \in (i + 1)..Len(log) : log[j].option # log[i].option
          THEN <<Str(log[i].option)>> ELSE <<>>) \o CheckedOrder(log, i + 1)

Clicks(log) == [i \in 1..Len(log) |-> <<log[i].option, log[i].checked>>]

\* C8: after any sequence of check and uncheck events on a multi-select field
\* that started with no value, the value of the field is the sequence of the
\* options now checked, in the order they were checked, none of them twice;
\* checking r, then g, then unchecking r leaves the sequence of g alone.
C8_MultiSelectValue ==
    event.log # <<>> =>
        LET v == GetPath(values, event.log[1].path) IN
        /\ v.kind = "array"
        /\ v.items = CheckedOrder(event.log, 1)
        /\ \A i, j \in 1..Len(v.items) : v.items[i] = v.items[j] => i = j
        /\ Clicks(event.log) = <<<<<<"r">>, TRUE>>, <<<<"g">>, TRUE>>, <<<<"r">>, FALSE>>>>
              => v = Arr(<<Str(<<"g">>)>>)

C8_Witness ==
    /\ Clicks(event.log) = <<<<<<"r">>, TRUE>>, <<<<"g">>, TRUE>>, <<<<"r">>, FALSE>>>>
    /\ GetPath(values, event.log[1].path) = Arr(<<Str(<<"g">>)>>)

\* the date fields the form renders
DateFields == {f \in RenderedFields(schema.properties, <<>>) : Widget(f.def) = "date"}

\* C9: a date or date-time field that started with no value and holds a picked
\* date when the form is submitted is accepted as a date: the submission
\* reports no error at the path of the field, required or not.
C9_DateRoundTrip ==
    Submitted =>
        \A f \in DateFields :
            GetPath(values, f.path).kind = "date" =>
                /\ GetPath(values, f.path).valid
                /\ Parse(TypeRule(f.def), GetPath(values, f.path), f.path) = {}
                /\ \A e \in errors : e.path # JoinPath(f.path)

C9_Witness ==
    /\ Submitted
    /\ errors # {}
    /\ \E f \in DateFields :
          /\ Len(f.path) = 2
          /\ f.def.format = "date-time"
          /\ GetPath(values, f.path) = DateValue(TRUE, 2)
          /\ \A e \in errors : e.path # JoinPath(f.path)

\* the number fields the form renders
NumberFields == {f \in RenderedFields(schema.properties, <<>>) : Widget(f.def) = "number"}

\* the text holds no number: it is empty or starts with a letter
NonNumeric(text) == text = <<>> \/ Head(text) \notin (Digits \cup {"-", "+", ".", " "})

\* C10: every change event of a number field stores a number, never NaN: the
\* number the text denotes, and 0 when the text is empty or not a number; a
\* number field the widget has written passes the number rule on submission.
C10_NumericCoercion ==
    /\ event.type = "number" =>
          LET v == GetPath(values, event.path) IN
          /\ v.kind = "number" /\ ~v.nan
          /\ NonNumeric(event.text) => v = Num(0, 0)
          /\ event.text = <<"0">> => v = Num(0, 0)
          /\ event.text = <<"1", "2">> => v = Num(12, 0)
          /\ event.text = <<"1", ".", "5">> => v = Num(15, 1)
          /\ event.text = <<"-", "3">> => v = Num(0 - 3, 0)
    /\ Submitted =>
          \A f \in NumberFields :
              GetPath(values, f.path).kind = "number" =>
                  \A e \in errors : e.path # JoinPath(f.path)

C10_Witness ==
    /\ Submitted
    /\ Includes(schema.required, <<"n">>)
    /\ GetPath(values, <<<<"n">>>>) = Num(0, 0)
    /\ \A e \in errors : e.path # <<"n">>
    /\ errors # {}

----------------------------------------------------------------------------
(* Properties of the editor, continued *)

\* the property the last handler addressed, before and after it ran
Target == Append(last.level, last.name)
PreDef == DefAt(last.properties, Target)
PostDef == DefAt(properties, Target)

\* the definition carries no nested property and no required name
NoNested(def) ==
    /\ ~def.hasProps /\ def.properties = <<>>
    /\ def.required = <<>>

\* C11: a type change of an object property to another type leaves a definition
\* with neither properties nor required; a change back to object right after
\* brings back neither the nested properties nor the required names.
C11_TypeChangeResets ==
    last.op = "type" =>
        /\ (PreDef.type = "object" /\ last.type # "object") => NoNested(PostDef)
        /\ (/\ last.twice
            /\ DefAt(last.properties2, Target).type = "object"
            /\ PreDef.type # "object"
            /\ last.type = "object") =>
                PostDef.properties = <<>> /\ PostDef.required = <<>>

\* the name Add generates for the group the last handler ran on
AddedName == PropertyName(Len(PreProps) + 1)

\* C12 as stated: Add inserts property_<n+1>, a name no sibling has, so that
\* the group holds n+1 properties, every sibling keeps its definition and the
\* required list is unchanged.
C12_AddUnique ==
    last.op = "add" =>
        /\ ~Has(PreProps, AddedName)
        /\ Len(PostProps) = Len(PreProps) + 1
        /\ Get(PostProps, AddedName) = NewProperty
        /\ \A k \in Keys(PreProps) : Has(PostProps, k) /\ Get(PostProps, k) = Get(PreProps, k)
        /\ PostReq = PreReq

\* C12, amended: Add sets the key property_<n+1> to the default definition and
\* leaves the required list and every other sibling alone; when no sibling has
\* that name the entry is appended and the group holds n+1 properties, and
\* when a sibling has it (after a remove or a rename) that sibling's
\* definition is overwritten in place and the group still holds n.
C12_AddProperty ==
    last.op = "add" =>
        /\ Has(PostProps, AddedName)
        /\ Get(PostProps, AddedName) = NewProperty
        /\ \A k \in Keys(PreProps) \ {AddedName} :
              Has(PostProps, k) /\ Get(PostProps, k) = Get(PreProps, k)
        /\ PostReq = PreReq
        /\ IF Has(PreProps, AddedName)
           THEN KeySeq(PostProps) = KeySeq(PreProps)
           ELSE PostProps = Append(PreProps, [name |-> AddedName, def |-> NewProperty])

C12_Witness ==
    /\ last.op = "add"
    /\ Has(PreProps, AddedName)
    /\ Get(PreProps, AddedName).type = "number"
    /\ Get(PostProps, AddedName) = NewProperty
    /\ Len(PostProps) = Len(PreProps)

\* the last handler renamed a property to the name of another sibling
RenameOnto == EffectiveRename /\ Has(PreProps, last.newName)

\* C13: renaming a onto an existing sibling b overwrites b: afterwards one entry
\* is named b and carries the definition a had, no entry is named a, the group
\* holds one property fewer, and the other siblings are unchanged, in order.
C13_RenameOverwrites ==
    RenameOnto =>
        /\ Cardinality({i \in 1..Len(PostProps) : PostProps[i].name = last.newName}) = 1
        /\ Get(PostProps, last.newName) = Get(PreProps, last.name)
        /\ ~Has(PostProps, last.name)
        /\ Len(PostProps) = Len(PreProps) - 1
        /\ KeySeq(PostProps) = KeySeq(Delete(PreProps, last.name))
        /\ \A k \in Keys(PreProps) \ {last.name, last.newName} :
              Get(PostProps, k) = Get(PreProps, k)

C13_Witness ==
    /\ RenameOnto
    /\ Len(PreProps) = 3
    /\ Get(PreProps, last.name) # Get(PreProps, last.newName)
    /\ Len(PostProps) = 2
    /\ Get(PostProps, last.newName) = Get(PreProps, last.name)

\* the last handler renamed a property to a name no sibling had
RenameFresh == EffectiveRename /\ ~Has(PreProps, last.newName)

\* C14: after an effective rename to a name not present, in a group of at least
\* two properties, the renamed entry is the last one in display order, the
\* other entries keep their relative order, and the new name stands in the
\* required list where the old name stood.
C14_RenameMovesLast ==
    (RenameFresh /\ Len(PreProps) >= 2) =>
        /\ Len(PostProps) = Len(PreProps)
        /\ PostProps[Len(PostProps)].name = last.newName
        /\ KeySeq(Delete(PostProps, last.newName)) = KeySeq(Delete(PreProps, last.name))
        /\ PostReq = Replace(PreReq, last.name, last.newName)

----------------------------------------------------------------------------
(* Properties of the input configuration *)

\* every definition of the tree, at any depth
RECURSIVE AllDefs(_)
AllDefs(props) ==
    UNION {{props[i].def} \cup AllDefs(props[i].def.properties) : i \in 1..Len(props)}

\* C15: the enum of a property is absent or a non-empty list after any sequence
\* of configuration handlers; choosing the select input type on a property
\* without enum gives the list of one empty string, Add Option appends one
\* empty string, and removing the only option makes the enum absent.
C15_EnumNeverEmpty ==
    /\ \A def \in AllDefs(properties) :
          IF def.hasEnum THEN Len(def.enum) > 0 ELSE def.enum = <<>>
    /\ (last.op = "inputType" /\ last.type = "select" /\ ~PreDef.hasEnum) =>
          PostDef.hasEnum /\ PostDef.enum = <<<<>>>>
    /\ last.op = "addOption" =>
          PostDef.hasEnum /\ PostDef.enum = Append(PreDef.enum, <<>>)
    /\ (last.op = "removeOption" /\ Len(PreDef.enum) = 1) => ~PostDef.hasEnum
    /\ (last.op = "removeOption" /\ Len(PreDef.enum) > 1) =>
          /\ PostDef.hasEnum
          /\ Len(PostDef.enum) = Len(PreDef.enum) - 1

C15_Witness ==
    /\ last.op = "removeOption"
    /\ last.level # <<>>
    /\ PreDef.enum = <<<<"r">>>>
    /\ ~PostDef.hasEnum
    /\ PostDef.enum = <<>>


----------------------------------------------------------------------------
(* Saving from the editor, under SpecRegistry *)

\* a text that is empty or consists of spaces only
OnlySpaces(text) == \A i \in 1..Len(text) : text[i] = " "

\* C16: a Save attempted while category, event type or title is blank posts
\* exactly one validation notification, does not call onSave, and leaves the
\* registry, the view and the editor's metadata, properties and required list
\* as they were; with all three non-blank onSave is called exactly once with
\* the current category, event type and schema.
C16_SaveBlocked ==
    [][ (reg'.n = reg.n + 1 /\ reg'.op = "save") =>
          IF OnlySpaces(category) \/ OnlySpaces(eventType) \/ OnlySpaces(title)
          THEN /\ reg'.toasts = <<"Validation Error">>
               /\ reg'.calls = <<>>
               /\ schemas' = schemas
               /\ viewMode' = viewMode
               /\ <<category, eventType, title>>' = <<category, eventType, title>>
               /\ <<properties, required>>' = <<properties, required>>
          ELSE /\ Len(reg'.calls) = 1
               /\ reg'.calls[1].category = category
               /\ reg'.calls[1].eventType = eventType
               /\ reg'.calls[1].schema.title = title
               /\ reg'.calls[1].schema.properties = properties
               /\ reg'.calls[1].schema.required = required
               /\ "Validation Error" \notin {reg'.toasts[i] : i \in 1..Len(reg'.toasts)}
      ]_vars

\* a Save was blocked on a whitespace-only title while the editor held a
\* category, an event type and properties
C16_Witness ==
    /\ reg.op = "save"
    /\ reg.toasts = <<"Validation Error">>
    /\ title = <<" ">>
    /\ category = <<"x">>
    /\ eventType = <<"x">>
    /\ properties # <<>>
    /\ viewMode = "edit"


----------------------------------------------------------------------------
(* The records of the registry, under SpecRegistry *)

\* C17: the ids of the records in the list are pairwise distinct, and a record
\* just created has an id that no record of the list before had, and equal
\* createdAt and updatedAt.
C17_FreshIdentity ==
    /\ \A i, j \in 1..Len(schemas) : i # j => schemas[i].id # schemas[j].id
    /\ (reg.op = "save" /\ reg.toasts = <<"Schema Created">>) =>
          /\ \A i \in 1..Len(reg.schemas) : reg.schemas[i].id # schemas[1].id
          /\ schemas[1].createdAt = schemas[1].updatedAt

\* C18: an update replaces category, eventType and schema of the records with
\* the given id, sets their updatedAt, keeps their id and createdAt, and leaves
\* every other record and the order alone; a delete removes the records with
\* the given id and nothing else, keeping the order; an id that matches no
\* record leaves the list unchanged.
C18_TouchOnlyAddressed ==
    /\ (reg.op = "save" /\ reg.toasts = <<"Schema Updated">>) =>
          /\ Len(schemas) = Len(reg.schemas)
          /\ \A i \in 1..Len(schemas) :
                IF reg.schemas[i].id = reg.id
                THEN /\ schemas[i].id = reg.id
                     /\ schemas[i].createdAt = reg.schemas[i].createdAt
                     /\ schemas[i].updatedAt = now
                     /\ schemas[i].category = reg.calls[1].category
                     /\ schemas[i].eventType = reg.calls[1].eventType
                     /\ schemas[i].schema = reg.calls[1].schema
                ELSE schemas[i] = reg.schemas[i]
    /\ reg.op = "delete" =>
          /\ \A i \in 1..Len(schemas) : schemas[i].id # reg.id
          /\ \E kept \in SUBSET (1..Len(reg.schemas)) :
                /\ kept = {i \in 1..Len(reg.schemas) : reg.schemas[i].id # reg.id}
                /\ Len(schemas) = Cardinality(kept)
                /\ \A i \in kept :
                      schemas[Cardinality({j \in kept : j <= i})] = reg.schemas[i]
    /\ \A id \in {<<"0">>, <<"1", "0", "0">>} :
          /\ handleDeleteSchema(schemas, id) = schemas
          /\ handleEditSchema(schemas, id, Request(<<"x">>, <<"x">>, <<"x">>, <<>>, <<>>),
                              now) = schemas

\* a record other than the first of the list was updated with changed metadata
\* while another record stood before it
C18_Witness ==
    /\ reg.op = "save"
    /\ reg.toasts = <<"Schema Updated">>
    /\ Len(schemas) >= 2
    /\ reg.schemas[2].id = reg.id
    /\ schemas[2] # reg.schemas[2]
    /\ schemas[2].updatedAt > reg.schemas[2].updatedAt


----------------------------------------------------------------------------
(* Editing a record of the registry, under SpecEditing *)

----------------------------------------------------------------------------
(* The widget of a string field, under SpecWidgets *)

\* C20: a rendered string field shows the date picker when its format is date
\* or date-time; otherwise, with a non-empty enum, the checkbox list if
\* multiple and the dropdown if not; otherwise the markdown editor when its
\* format is markdown; otherwise the multi-line box when its format is textarea
\* or its description is longer than 50 characters; otherwise the single-line
\* box, of the email kind when its format is email.
C20_StringWidgetPrecedence ==
    event.type = "render" =>
        \A shown \in event.shown :
            shown.def.type = "string" =>
                LET def == shown.def
                    isDate == def.format = "date" \/ def.format = "date-time"
                    hasOptions == def.hasEnum /\ def.enum # <<>>
                    isMarkdown == def.format = "markdown"
                    isLong == def.format = "textarea" \/ Len(def.description) >= 51
                IN  /\ isDate => shown.widget = "date"
                    /\ (~isDate /\ hasOptions /\ def.multiple)
                          => shown.widget = "checkboxes"
                    /\ (~isDate /\ hasOptions /\ ~def.multiple)
                          => shown.widget = "select"
                    /\ (~isDate /\ ~hasOptions /\ isMarkdown)
                          => shown.widget = "markdown"
                    /\ (~isDate /\ ~hasOptions /\ ~isMarkdown /\ isLong)
                          => shown.widget = "textarea"
                    /\ (~isDate /\ ~hasOptions /\ ~isMarkdown /\ ~isLong)
                          => shown.widget = IF def.format = "email" THEN "email" ELSE "text"

\* a field with a description of exactly 50 characters, no options and no
\* format was rendered as a single-line box
C20_Witness ==
    /\ event.type = "render"
    /\ \E shown \in event.shown :
          /\ shown.def.type = "string"
          /\ Len(shown.def.description) = 50
          /\ shown.def.format = NoFormat
          /\ shown.def.hasEnum /\ shown.def.enum = <<>>
          /\ shown.widget = "text"


----------------------------------------------------------------------------
(* The sub-sections of object fields, under SpecNested *)

\* the objects with properties in a list of entries, each with its path
RECURSIVE ObjectsIn(_, _)
ObjectsIn(props, parentPath) ==
    UNION {
        IF props[i].def.type = "object" /\ props[i].def.hasProps
        THEN {[path |-> Append(parentPath, props[i].name), def |-> props[i].def]}
             \cup ObjectsIn(props[i].def.properties, Append(parentPath, props[i].name))
        ELSE {} :
        i \in 1..Len(props)}

\* the number of entries of the rendered plan with a path and a widget
Shown(path, widget) ==
    Cardinality({k \in 1..Len(event.plan) :
                    event.plan[k].path = path /\ event.plan[k].widget = widget})

\* C21: in a rendered form every object with nested properties, at any depth,
\* has one sub-section, and each of its nested properties that is not itself
\* such an object appears exactly once, with the widget selected for its own
\* definition, at the path of the object extended by its name.
C21_NestedOnce ==
    event.type = "render" =>
        \A o \in ObjectsIn(schema.properties, <<>>) :
            /\ o.def.properties # <<>> => Shown(o.path, "section") = 1
            /\ \A j \in 1..Len(o.def.properties) :
                  LET nested == o.def.properties[j] IN
                  ~(nested.def.type = "object" /\ nested.def.hasProps) =>
                      /\ Shown(Append(o.path, nested.name), Widget(nested.def)) = 1
                      /\ \A k \in 1..Len(event.plan) :
                            event.plan[k].path = Append(o.path, nested.name)
                                => event.plan[k].widget = Widget(nested.def)


----------------------------------------------------------------------------
(* Array fields, under SpecArray *)

\* C22: every array field of a rendered form is shown as the tag input, the
\* value stored at its path after the user's input is a sequence, and the
\* compiled rules report no issue at its path for that value.
C22_ArrayCollects ==
    \A f \in RenderedFields(currentStepProperties, <<>>) :
        f.def.type = "array" =>
            /\ event.type = "render" =>
                  \A shown \in event.shown : shown.path = f.path => shown.widget = "tags"
            /\ (event.type = "text" /\ event.path = f.path) =>
                  /\ GetPath(values, f.path).kind = "array"
                  /\ \A issue \in Validate(schema, values) : issue.path # JoinPath(f.path)


----------------------------------------------------------------------------
(* The tag input, under SpecTags *)

\* C23: the committed list never holds a token twice nor a token that is
\* empty or made of spaces; Enter or Space appends the trimmed pending text at
\* the end exactly when it is not blank and not in the list, and clears the
\* pending text in every case; Backspace removes the last token exactly when
\* the pending text is empty and the list is not, and changes nothing else.
C23_TagInput ==
    /\ \A i, j \in 1..Len(tags) : i # j => tags[i] # tags[j]
    /\ \A i \in 1..Len(tags) : \E k \in 1..Len(tags[i]) : tags[i][k] # " "
    /\ (tagEvent.type = "key" /\ tagEvent.key \in {"Enter", " "}) =>
          LET pending == tagEvent.inputValue
              blank == \A k \in 1..Len(pending) : pending[k] = " "
              present == \E i \in 1..Len(tagEvent.tags) : tagEvent.tags[i] = Trim(pending)
          IN  /\ inputValue = <<>>
              /\ tags = IF ~blank /\ ~present
                        THEN tagEvent.tags \o <<Trim(pending)>>
                        ELSE tagEvent.tags
    /\ (tagEvent.type = "key" /\ tagEvent.key = "Backspace") =>
          /\ inputValue = tagEvent.inputValue
          /\ tags = IF tagEvent.inputValue = <<>> /\ tagEvent.tags # <<>>
                    THEN SubSeq(tagEvent.tags, 1, Len(tagEvent.tags) - 1)
                    ELSE tagEvent.tags

\* Enter committed a pending text with a leading space as a third token
C23_Witness ==
    /\ tagEvent.type = "key"
    /\ tagEvent.key = "Enter"
    /\ tagEvent.inputValue = <<" ", "b">>
    /\ Len(tagEvent.tags) = 2
    /\ tags = Append(tagEvent.tags, <<"b">>)


----------------------------------------------------------------------------
(* The steps of a multi-step form, under SpecSteps *)

\* the least number of steps of three that hold n properties
StepCountFor(n) == CHOOSE k \in 0..n : 3 * k >= n /\ (k = 0 \/ 3 * (k - 1) < n)

\* C24: in a multi-step form the step index stays between 0 and the step
\* count minus one, the step count being the property count divided by three
\* and rounded up; the submit button is shown on the last step only and never
\* beside Next; the index changes by +1 on Next and by -1 on Previous and on
\* nothing else, and Next is enabled whatever the form's values and errors.
C24_StepNavigation ==
    /\ [](multiStep =>
            /\ 0 <= currentStep
            /\ currentStep <= StepCountFor(Len(schema.properties)) - 1
            /\ SubmitShown => currentStep = StepCountFor(Len(schema.properties)) - 1
            /\ ~(SubmitShown /\ NextShown)
            /\ NextShown => ENABLED handleNext)
    /\ [][multiStep /\ currentStep' # currentStep =>
            \/ event'.type = "next" /\ currentStep' = currentStep + 1
            \/ event'.type = "previous" /\ currentStep' = currentStep - 1]_vars


----------------------------------------------------------------------------
(* Submitting a form, under SpecSubmit *)

\* the number of messages on the page for a path
MessageCount(path) ==
    LET shown == MessagesShown(currentStepProperties, errors)
    IN  Cardinality({k \in DOMAIN shown : shown[k] = path})

\* C25: a submit hands the values to onSubmit exactly when the compiled rules
\* report no issue for them; otherwise onSubmit is not called and the form,
\* as rendered at its current step, shows one message for the path of every
\* issue, with one step or with several.
C25_SubmitGated ==
    [][ (event'.type = "submit" /\ event'.count = event.count + 1) =>
          IF Validate(schema, values) = {}
          THEN Len(submitted') = Len(submitted) + 1
          ELSE /\ submitted' = submitted
               /\ \A issue \in Validate(schema, values) : MessageCount(issue.path)' = 1
      ]_vars


----------------------------------------------------------------------------
(* The shape of the edited tree, under Spec *)

\* C26: in every state of the editor each property of type object has a
\* properties mapping, possibly empty, and each property of another type has
\* none.
C26_ObjectShape ==
    \A def \in AllDefs(properties) :
        /\ def.type = "object" => def.hasProps
        /\ def.type # "object" => ~def.hasProps /\ def.properties = <<>>


\* C27: at the top level and at every nested object, each name of the
\* required list is a key of the properties of the same level.
C27_RequiredSubset ==
    \A level \in Levels(properties) :
        \A i \in 1..Len(LevelReq(properties, required, level)) :
            LevelReq(properties, required, level)[i] \in Keys(LevelProps(properties, level))


----------------------------------------------------------------------------
(* The input configuration of a property, under SpecOptions *)

\* C28: a property whose multiple flag is set has an enum.
C28_MultipleImpliesEnum ==
    \A def \in AllDefs(properties) : def.multiple => def.hasEnum


----------------------------------------------------------------------------
(* The required lists of the edited tree, under Spec *)

\* C29: no name occurs twice in the required list of the top level or of any
\* property.
C29_RequiredNoDuplicates ==
    /\ \A i, j \in 1..Len(required) : i # j => required[i] # required[j]
    /\ \A def \in AllDefs(properties) :
          \A i, j \in 1..Len(def.required) : i # j => def.required[i] # def.required[j]


----------------------------------------------------------------------------
(* The values of string fields against their rules, under SpecOptions *)

\* the values the widget of a definition writes into an empty field: the day
\* picked in the calendar (DynamicForm.tsx:122-123), the list with the checked
\* option (144-150), the option chosen in the dropdown (160), the text of a
\* text input, textarea or markdown editor (177-216)
WidgetValues(property) ==
    CASE Widget(property) = "date" -> {DaySelected(Undefined, day) : day \in Days}
      [] Widget(property) = "checkboxes" ->
            {CheckedChange(Undefined, property.enum[i], TRUE) : i \in 1..Len(property.enum)}
      [] Widget(property) = "select" ->
            {Str(property.enum[i]) : i \in 1..Len(property.enum)}
      [] OTHER -> {Str(text) : text \in TextInputs}

\* C30: for every string property of the edited tree, no value written by the
\* widget selected for it is rejected by its compiled rule as being of the
\* wrong type.
C30_WidgetMatchesRule ==
    \A def \in AllDefs(properties) :
        def.type = "string" =>
            \A v \in WidgetValues(def) :
                \A issue \in Parse(TypeRule(def), v, <<<<"f">>>>) :
                    issue.message # "Invalid type"


====
